---- MODULE Spec2Model ----
(***************************************************************************)
(* Synapse: request routing and failover core.                             *)
(*                                                                         *)
(* The model covers the Router's chain walk (src/src/router.ts), the       *)
(* per-provider HealthTracker (src/unnamed/part_006, health.ts) and the    *)
(* clock the tracker reads.  Several routed requests run concurrently on   *)
(* one event loop: every action is one synchronous section of the code,    *)
(* from one suspension point (await) to the next.                          *)
(***************************************************************************)
EXTENDS Integers, Sequences, FiniteSets, TLC

\* ------------------------------------------------------------------ bounds

\* Number of clock advances explored in one behaviour.
MaxTicks == 2
\* Date.now() at construction of the Router (any positive instant).
StartTime == 1

\* Number of routed requests that can be in flight at the same time.
MaxRequests == 3

Requests == 1..MaxRequests

\* Number of chatCompletions calls followed at the same time.
MaxCalls == 1

Calls == 1..MaxCalls

\* Largest failure count followed when the HealthTracker is called directly.
MaxFailureCount == 3

\* Number of chunks followed on one streamed response.
MaxChunks == 2

\* Number of entries passed to RequestLogger.log.
MaxEntries == 3

\* The flush() calls of the RequestLogger that can be pending at one time.
FlushCalls == {1, 2}

\* A delay between two events of an upstream exchange, in milliseconds: less
\* than the idle timeout.
ChunkGap == 10000

\* const TIMEOUT_MS = 120_000
TIMEOUT_MS == 120000

\* const STREAM_IDLE_TIMEOUT_MS = 30_000
STREAM_IDLE_TIMEOUT_MS == 30000

\* const REACHABILITY_TTL_MS = 30_000
REACHABILITY_TTL_MS == 30000

\* daemon.ts: const MAX_BODY_BYTES = 1 * 1024 * 1024
MAX_BODY_BYTES == 1048576

\* ----------------------------------------------------------- configuration

\* An optional config field (maxFailures?, cooldownSeconds?) is the empty set
\* when the field is undefined and {v} when it holds v.
Undefined == {}

\* Mutant of NullishOr: the default is used whatever the provider configures.
NullishOrDefault(x, d) == d

\* x ?? d
NullishOr(x, d) == IF x = Undefined THEN d ELSE CHOOSE v \in x : TRUE

\* ProviderConfig
Provider(n, url, ms, mf, cd) ==
    [name |-> n, baseUrl |-> url, models |-> ms, maxFailures |-> mf,
     cooldownSeconds |-> cd]

\* The chain of the routing scenario: a provider with an explicit model list
\* followed by two wildcard providers, the last one relying on the defaults.
ChainWildcards ==
    << Provider("A", "http://a/v1", <<"x">>, {2}, {1}),
       Provider("B", "http://b/v1", <<"*">>, {1}, {2}),
       Provider("C", "http://c/v1", <<"*">>, Undefined, Undefined) >>

\* The single-provider scenario: model "x" is served by one provider only.
ChainSingle ==
    << Provider("A", "http://a/v1", <<"x">>, {1}, {60}) >>

\* A wildcard provider followed by a provider with an explicit model list.
ChainPair ==
    << Provider("W", "http://w/v1", <<"*">>, {1}, {2}),
       Provider("X", "http://x/v1", <<"x">>, {2}, {1}) >>

\* One upstream configured twice, under two provider names.
ChainMirror ==
    << Provider("M", "http://m/v1", <<"x">>, {1}, {1}),
       Provider("N", "http://m/v1", <<"x">>, {1}, {1}) >>

Configs == {ChainWildcards, ChainPair, ChainSingle}

\* How many requests are explored in flight at once on a chain: MaxRequests
\* on a single provider, two on a chain of two, and one request at a time on
\* a longer chain (requests then follow one another on a shared tracker).
InFlightLimit(providers) ==
    IF Len(providers) = 1 THEN MaxRequests
    ELSE IF Len(providers) = 2 THEN 2 ELSE 1

\* Model strings a client may request.
Models == {"x", "y"}

\* Model strings of any kind: also the empty string, the wildcard itself
\* and a string that holds it.
ModelStrings == Models \cup {"", "*", "x*"}

\* HTTP statuses an upstream may answer with.
Statuses == {200, 404, 499, 500}

\* What awaiting chatCompletions yields: a ProviderResult or a thrown error.
Outcomes ==
    [kind : {"status"}, status : Statuses] \cup {[kind |-> "throw", status |-> 0]}

NoOutcome == [kind |-> "none", status |-> 0]

\* The data arrays an upstream may answer GET /models with: lists of model
\* ids, one of them with an id twice.
ListData == {<<"m">>, <<"k", "m", "k">>}

\* What the fetch of listModels meets: a 2xx answer whose JSON has a data
\* array or none, an answer that is not ok, or a thrown error (transport
\* error, timeout, unparsable body).
ListAnswers ==
    {[kind |-> "ok", data |-> {d}] : d \in ListData}
    \cup {[kind |-> "ok", data |-> Undefined],
          [kind |-> "notok", data |-> Undefined],
          [kind |-> "throw", data |-> Undefined]}

\* What the upstream can do to the GET /models request of listModels and
\* checkReachable: the fetch rejects (transport error), is aborted by the
\* function's own timeout, or responds.  ok is response.ok; the body is not
\* JSON, the JSON value null, or a JSON object with or without a data array.
ListBodies ==
    {[json |-> "invalid", data |-> Undefined],
     [json |-> "null", data |-> Undefined],
     [json |-> "object", data |-> Undefined]}
    \cup {[json |-> "object", data |-> {d}] : d \in ListData}
Upstreams ==
    {[fetch |-> f, ok |-> FALSE, body |-> [json |-> "invalid",
                                          data |-> Undefined]] :
        f \in {"rejects", "aborted"}}
    \cup {[fetch |-> "responds", ok |-> o, body |-> b] :
            o \in BOOLEAN, b \in ListBodies}

\* A listModels that reads the body whatever the status.
listAnswerAnyStatus(u) ==
    IF u.fetch # "responds" \/ u.body.json # "object"
    THEN [kind |-> "throw", data |-> Undefined]
    ELSE [kind |-> "ok", data |-> u.body.data]

\* The way through listModels' try block: a rejected or aborted fetch throws
\* at the first await; a response that is not ok returns before the body is
\* read; response.json() rejects on a body that is not JSON and data.data
\* throws on null, both inside the try; otherwise data.data is read.
listAnswer(u) ==
    IF u.fetch # "responds" THEN [kind |-> "throw", data |-> Undefined]
    ELSE IF ~u.ok THEN [kind |-> "notok", data |-> Undefined]
    ELSE IF u.body.json # "object" THEN [kind |-> "throw", data |-> Undefined]
    ELSE [kind |-> "ok", data |-> u.body.data]

\* The way through checkReachable's try block: a rejected or aborted fetch
\* throws, a response is judged by response.ok and its body is never read.
probeAnswer(u) ==
    IF u.fetch # "responds" THEN "throw"
    ELSE IF u.ok THEN "ok" ELSE "notok"

VARIABLES
    config,   \* SynapseConfig.providers, fixed at construction
    health,   \* HealthTracker.state: provider name -> ProviderHealth
    now,      \* Date.now()
    ticks,    \* number of clock advances so far
    req,      \* per routed request: the locals of routeChatCompletions
    streak,   \* per provider: recordFailure calls since the last
              \* recordSuccess, recovery or construction
    listing,  \* the locals of the listAllModels call in progress
    call,     \* per chatCompletions call: its controller, timers and stream
    cache,    \* reachabilityCache: cache key -> entry
    report,   \* the locals of the handleHealth call in progress
    op,       \* the last call made on the HealthTracker by a direct user
    logger    \* the RequestLogger: its fields, its pending flush() calls
              \* and what was appended to the log file

\* The state outside the Router's chain walk.
aside == <<listing, call, cache, report, op>>

\* What the request handlers leave as it is: the configuration and, their
\* log entries not being followed, the RequestLogger.
fixed == <<config, logger>>

vars ==
    <<config, health, now, ticks, req, streak, listing, call, cache, report,
      op, logger>>

\* -------------------------------------------------------------- sequences

Range(s) == {s[k] : k \in 1..Len(s)}

\* Array.prototype.includes
Includes(s, x) == x \in Range(s)

\* ---------------------------------------------------------- HealthTracker

\* The ProviderHealth of a provider at construction.
InitialHealth(n) ==
    [name |-> n, healthy |-> TRUE, consecutiveFailures |-> 0,
     unhealthySince |-> 0, cooldownUntil |-> 0]

\* HealthTracker.constructor
NewHealthTracker(providers) ==
    [n \in {providers[k].name : k \in 1..Len(providers)} |-> InitialHealth(n)]

\* Mutant of recover: the failure count survives the recovery.
recoverKeepsCount(h, providerName) ==
    IF providerName \notin DOMAIN h THEN h
    ELSE [h EXCEPT ![providerName] =
            [@ EXCEPT !.healthy = TRUE,
                      !.unhealthySince = 0, !.cooldownUntil = 0]]

\* HealthTracker.recover
recover(h, providerName) ==
    IF providerName \notin DOMAIN h THEN h
    ELSE [h EXCEPT ![providerName] =
            [@ EXCEPT !.healthy = TRUE, !.consecutiveFailures = 0,
                      !.unhealthySince = 0, !.cooldownUntil = 0]]

\* Mutant of isHealthy: the cooldown deadline itself does not yet recover.
isHealthyStrict(h, providerName, t) ==
    IF providerName \notin DOMAIN h
    THEN [ret |-> FALSE, state |-> h, recovered |-> FALSE]
    ELSE IF ~h[providerName].healthy /\ h[providerName].cooldownUntil > 0
            /\ t > h[providerName].cooldownUntil
         THEN [ret |-> TRUE, state |-> recover(h, providerName),
               recovered |-> TRUE]
         ELSE [ret |-> h[providerName].healthy, state |-> h,
               recovered |-> FALSE]

\* Mutant of isHealthy: an unhealthy provider recovers whatever the time.
isHealthyNoDeadline(h, providerName, t) ==
    IF providerName \notin DOMAIN h
    THEN [ret |-> FALSE, state |-> h, recovered |-> FALSE]
    ELSE IF ~h[providerName].healthy /\ h[providerName].cooldownUntil > 0
         THEN [ret |-> TRUE, state |-> recover(h, providerName),
               recovered |-> TRUE]
         ELSE [ret |-> h[providerName].healthy, state |-> h,
               recovered |-> FALSE]

\* An isHealthy that also consults the reachability cache: a provider whose
\* base URL is cached as unreachable is reported unhealthy.
isHealthyIfReachable(h, providerName, t) ==
    IF providerName \notin DOMAIN h
    THEN [ret |-> FALSE, state |-> h, recovered |-> FALSE]
    ELSE IF \E k \in 1..Len(config) :
               /\ config[k].name = providerName
               /\ \E e \in cache[config[k].baseUrl] : ~e.reachable
         THEN [ret |-> FALSE, state |-> h, recovered |-> FALSE]
         ELSE IF ~h[providerName].healthy /\ h[providerName].cooldownUntil > 0
                 /\ t >= h[providerName].cooldownUntil
              THEN [ret |-> TRUE, state |-> recover(h, providerName),
                    recovered |-> TRUE]
              ELSE [ret |-> h[providerName].healthy, state |-> h,
                    recovered |-> FALSE]

\* HealthTracker.isHealthy: the value returned, the tracker state it leaves,
\* and whether it recovered the provider (recover logs "auto-recovered").
isHealthy(h, providerName, t) ==
    IF providerName \notin DOMAIN h
    THEN [ret |-> FALSE, state |-> h, recovered |-> FALSE]
    ELSE IF ~h[providerName].healthy /\ h[providerName].cooldownUntil > 0
            /\ t >= h[providerName].cooldownUntil
         THEN [ret |-> TRUE, state |-> recover(h, providerName),
               recovered |-> TRUE]
         ELSE [ret |-> h[providerName].healthy, state |-> h,
               recovered |-> FALSE]

\* Mutant of recordSuccess: the cooldown fields are left as they were.
recordSuccessKeepsCooldown(h, providerName) ==
    IF providerName \notin DOMAIN h THEN h
    ELSE [h EXCEPT ![providerName] =
            [@ EXCEPT !.consecutiveFailures = 0, !.healthy = TRUE]]

\* HealthTracker.recordSuccess
recordSuccess(h, providerName) ==
    IF providerName \notin DOMAIN h THEN h
    ELSE [h EXCEPT ![providerName] =
            [@ EXCEPT !.consecutiveFailures = 0, !.healthy = TRUE,
                      !.unhealthySince = 0, !.cooldownUntil = 0]]

\* Mutant of reachedThreshold: every failure counts as reaching the threshold.
reachedThresholdAlways(count, maxFailures) == TRUE

\* Mutant of reachedThreshold: the threshold has to be exceeded.
reachedThresholdStrict(count, maxFailures) == count > maxFailures

\* health.consecutiveFailures >= maxFailures
reachedThreshold(count, maxFailures) == count >= maxFailures

\* Mutant of recordFailure: the deadline is set on the transition to unhealthy
\* only, and kept on later failures.
recordFailureKeepsDeadline(h, providerName, maxFailures, cooldownSeconds, t) ==
    IF providerName \notin DOMAIN h THEN h
    ELSE LET count == h[providerName].consecutiveFailures + 1
             wasHealthy == h[providerName].healthy
         IN  IF reachedThreshold(count, maxFailures)
             THEN [h EXCEPT ![providerName] =
                     [@ EXCEPT !.consecutiveFailures = count,
                               !.healthy = FALSE,
                               !.cooldownUntil =
                                   IF wasHealthy
                                   THEN t + cooldownSeconds * 1000 ELSE @,
                               !.unhealthySince =
                                   IF wasHealthy THEN t ELSE @]]
             ELSE [h EXCEPT ![providerName].consecutiveFailures = count]

\* Mutant of recordFailure: the provider is marked unhealthy with no deadline.
recordFailureNoDeadline(h, providerName, maxFailures, cooldownSeconds, t) ==
    IF providerName \notin DOMAIN h THEN h
    ELSE LET count == h[providerName].consecutiveFailures + 1
             wasHealthy == h[providerName].healthy
         IN  IF reachedThreshold(count, maxFailures)
             THEN [h EXCEPT ![providerName] =
                     [@ EXCEPT !.consecutiveFailures = count,
                               !.healthy = FALSE,
                               !.cooldownUntil = 0,
                               !.unhealthySince =
                                   IF wasHealthy THEN t ELSE @]]
             ELSE [h EXCEPT ![providerName].consecutiveFailures = count]

\* Mutant of recordFailure: nothing is recorded.
recordFailureNothing(h, providerName, maxFailures, cooldownSeconds, t) == h

\* A recordFailure that opens a record for a name it does not know.
recordFailureCreatesEntry(h, providerName, maxFailures, cooldownSeconds, t) ==
    LET known == [n \in DOMAIN h \cup {providerName} |->
                    IF n \in DOMAIN h THEN h[n] ELSE InitialHealth(n)]
        count == known[providerName].consecutiveFailures + 1
        wasHealthy == known[providerName].healthy
    IN  IF reachedThreshold(count, maxFailures)
        THEN [known EXCEPT ![providerName] =
                [@ EXCEPT !.consecutiveFailures = count,
                          !.healthy = FALSE,
                          !.cooldownUntil = t + cooldownSeconds * 1000,
                          !.unhealthySince = IF wasHealthy THEN t ELSE @]]
        ELSE [known EXCEPT ![providerName].consecutiveFailures = count]

\* A recordFailure whose cooldown doubles with every failure past the
\* threshold.
recordFailureExponential(h, providerName, maxFailures, cooldownSeconds, t) ==
    IF providerName \notin DOMAIN h THEN h
    ELSE LET count == h[providerName].consecutiveFailures + 1
             wasHealthy == h[providerName].healthy
         IN  IF reachedThreshold(count, maxFailures)
             THEN [h EXCEPT ![providerName] =
                     [@ EXCEPT !.consecutiveFailures = count,
                               !.healthy = FALSE,
                               !.cooldownUntil =
                                   t + cooldownSeconds * 1000
                                       * 2 ^ (count - maxFailures),
                               !.unhealthySince =
                                   IF wasHealthy THEN t ELSE @]]
             ELSE [h EXCEPT ![providerName].consecutiveFailures = count]

\* A recordFailure that stops counting at the threshold.
recordFailureCapped(h, providerName, maxFailures, cooldownSeconds, t) ==
    IF providerName \notin DOMAIN h THEN h
    ELSE LET next == h[providerName].consecutiveFailures + 1
             count == IF next > maxFailures THEN maxFailures ELSE next
             wasHealthy == h[providerName].healthy
         IN  IF reachedThreshold(count, maxFailures)
             THEN [h EXCEPT ![providerName] =
                     [@ EXCEPT !.consecutiveFailures = count,
                               !.healthy = FALSE,
                               !.cooldownUntil = t + cooldownSeconds * 1000,
                               !.unhealthySince =
                                   IF wasHealthy THEN t ELSE @]]
             ELSE [h EXCEPT ![providerName].consecutiveFailures = count]

\* A recordFailure that stamps unhealthySince on every failure at or past
\* the threshold.
recordFailureRestamps(h, providerName, maxFailures, cooldownSeconds, t, u) ==
    IF providerName \notin DOMAIN h THEN h
    ELSE LET count == h[providerName].consecutiveFailures + 1
         IN  IF reachedThreshold(count, maxFailures)
             THEN [h EXCEPT ![providerName] =
                     [@ EXCEPT !.consecutiveFailures = count,
                               !.healthy = FALSE,
                               !.cooldownUntil = t + cooldownSeconds * 1000,
                               !.unhealthySince = u]]
             ELSE [h EXCEPT ![providerName].consecutiveFailures = count]

\* HealthTracker.recordFailure with its two readings of the clock: t is the
\* Date.now() of the cooldownUntil assignment, u the Date.now() of the
\* unhealthySince assignment two statements later.
recordFailureAt(h, providerName, maxFailures, cooldownSeconds, t, u) ==
    IF providerName \notin DOMAIN h THEN h
    ELSE LET count == h[providerName].consecutiveFailures + 1
             wasHealthy == h[providerName].healthy
         IN  IF reachedThreshold(count, maxFailures)
             THEN [h EXCEPT ![providerName] =
                     [@ EXCEPT !.consecutiveFailures = count,
                               !.healthy = FALSE,
                               !.cooldownUntil = t + cooldownSeconds * 1000,
                               !.unhealthySince =
                                   IF wasHealthy THEN u ELSE @]]
             ELSE [h EXCEPT ![providerName].consecutiveFailures = count]

\* HealthTracker.recordFailure when both readings of the clock fall into the
\* same millisecond t.
recordFailure(h, providerName, maxFailures, cooldownSeconds, t) ==
    IF providerName \notin DOMAIN h THEN h
    ELSE LET count == h[providerName].consecutiveFailures + 1
             wasHealthy == h[providerName].healthy
         IN  IF reachedThreshold(count, maxFailures)
             THEN [h EXCEPT ![providerName] =
                     [@ EXCEPT !.consecutiveFailures = count,
                               !.healthy = FALSE,
                               !.cooldownUntil = t + cooldownSeconds * 1000,
                               !.unhealthySince =
                                   IF wasHealthy THEN t ELSE @]]
             ELSE [h EXCEPT ![providerName].consecutiveFailures = count]

\* ------------------------------------------------------------------ Router

\* Mutant of servesModel: the model match accepts every provider.
servesModelAlways(provider, model) == TRUE

\* A servesModel that knows no wildcard: the list must hold the model.
servesModelLiteral(provider, model) == Includes(provider.models, model)

\* Router.servesModel
servesModel(provider, model) ==
    Includes(provider.models, "*") \/ Includes(provider.models, model)

\* const isWildcard = provider.models.includes("*")
isWildcard(provider) == Includes(provider.models, "*")

\* Mutant of inTerminalRange: client errors fail over like server errors.
inTerminalRangeBelow400(status) == status >= 200 /\ status < 400

\* result.status >= 200 && result.status < 500
inTerminalRange(status) == status >= 200 /\ status < 500

\* Mutant of isSoftMiss: a 404 is never a soft miss.
isSoftMissNever(provider, status) == FALSE

\* An isSoftMiss that takes the 404 of any provider for a soft miss.
isSoftMissAnyProvider(provider, status) == status = 404

\* result.status === 404 && isWildcard
isSoftMiss(provider, status) == status = 404 /\ isWildcard(provider)

\* The entry pushed to skipped: `${provider.name}(reason)`.
skipEntry(name, reason) == <<name, reason>>

\* The error of the exhausted result: the message names the model, the
\* attempted and the skipped providers.
exhaustedError(model, attempted, skipped) ==
    [model |-> model, attempted |-> attempted, skipped |-> skipped]

\* Mutant of nextIndex: the loop stays on the provider it just tried.
nextIndexSame(i) == i

\* for (const provider of this.config.providers): the iteration that follows
\* the one of index i.
nextIndex(i) == i + 1

\* The for loop of routeChatCompletions from provider index i up to the next
\* suspension point: either chatCompletions has been called on provider w.idx
\* (w.awaiting) or the chain is exhausted.  ops lists the HealthTracker calls
\* made on the way.
RECURSIVE routeLoop(_, _, _, _, _, _, _, _)
routeLoop(providers, h, i, model, attempted, skipped, ops, t) ==
    IF i > Len(providers)
    THEN [awaiting |-> FALSE, idx |-> i, state |-> h, attempted |-> attempted,
          skipped |-> skipped, ops |-> ops]
    ELSE LET provider == providers[i]
             chk == isHealthy(h, provider.name, t)
             called == Append(ops, <<"isHealthy", provider.name, chk.ret>>)
                       \o (IF chk.recovered
                           THEN <<<<"recover", provider.name, TRUE>>>>
                           ELSE <<>>)
         IN  IF ~servesModel(provider, model)
             THEN routeLoop(providers, h, i + 1, model, attempted,
                            Append(skipped, skipEntry(provider.name, "no-model")),
                            ops, t)
             ELSE IF ~chk.ret
             THEN routeLoop(providers, chk.state, i + 1, model, attempted,
                            Append(skipped, skipEntry(provider.name, "unhealthy")),
                            called, t)
             ELSE [awaiting |-> TRUE, idx |-> i, state |-> chk.state,
                   attempted |-> Append(attempted, provider.name),
                   skipped |-> skipped, ops |-> called]

\* A routeResult that leaves the answering provider out of attempted.
routeResultUnlisted(provider, status, attempted, skipped) ==
    [provider |-> {provider}, result |-> {[status |-> status]},
     attempted |-> SubSeq(attempted, 1, Len(attempted) - 1),
     skipped |-> skipped, error |-> {}]

\* The RouteResult returned when a provider answered with a terminal status.
routeResult(provider, status, attempted, skipped) ==
    [provider |-> {provider}, result |-> {[status |-> status]},
     attempted |-> attempted, skipped |-> skipped, error |-> {}]

\* Mutant of exhaustedResult: the skipped providers are left out of the result.
exhaustedResultNoSkipped(model, attempted, skipped) ==
    [provider |-> {}, result |-> {}, attempted |-> attempted,
     skipped |-> <<>>,
     error |-> {exhaustedError(model, attempted, <<>>)}]

\* The RouteResult returned when the chain is exhausted.
exhaustedResult(model, attempted, skipped) ==
    [provider |-> {}, result |-> {}, attempted |-> attempted,
     skipped |-> skipped,
     error |-> {exhaustedError(model, attempted, skipped)}]

\* ---------------------------------------------------------- listAllModels

\* The model entries of a data array; owned_by tells which upstream sent the
\* entry.
Entries(provider, data) ==
    [k \in 1..Len(data) |-> [id |-> data[k], owned_by |-> provider.name]]

\* listModels: the models of an ok answer (data ?? []), [] for every other
\* answer and for every error; the promise never rejects.
listModels(provider, answer) ==
    IF answer.kind = "ok"
    THEN Entries(provider, NullishOr(answer.data, <<>>))
    ELSE <<>>

\* An element of the array Promise.allSettled resolves with, and the slot of
\* a promise that has not settled yet.
Fulfilled(value) == [status |-> "fulfilled", value |-> value]
Pending == [status |-> "pending", value |-> <<>>]

\* Mutant of allSettled: the first settled promise is enough.
allSettledAny(results) ==
    \E i \in 1..Len(results) : results[i].status # "pending"

\* Promise.allSettled resolves once no promise is pending.
allSettled(results) ==
    \A i \in 1..Len(results) : results[i].status # "pending"

\* Mutant of seenHas: no id counts as seen.
seenHasNothing(seen, id) == FALSE

\* seen.has(model.id)
seenHas(seen, id) == id \in seen

\* for (const model of result.value): push the models whose id is new.
RECURSIVE pushUnseen(_, _)
pushUnseen(value, acc) ==
    IF value = <<>> THEN acc
    ELSE LET model == Head(value)
         IN  pushUnseen(Tail(value),
                IF seenHas(acc.seen, model.id) THEN acc
                ELSE [seen |-> acc.seen \cup {model.id},
                      allModels |-> Append(acc.allModels, model)])

\* for (let i = 0; i < results.length; i++): the fulfilled results in index
\* order.
RECURSIVE collectModels(_, _, _)
collectModels(results, i, acc) ==
    IF i > Len(results) THEN acc.allModels
    ELSE collectModels(results, i + 1,
            IF results[i].status = "fulfilled"
            THEN pushUnseen(results[i].value, acc)
            ELSE acc)

\* this.config.providers.filter((p) => this.health.isHealthy(p.name)): the
\* isHealthy calls in configuration order, each on the state the previous
\* one left.
RECURSIVE filterHealthy(_, _, _, _, _)
filterHealthy(providers, h, i, kept, t) ==
    IF i > Len(providers) THEN [healthyProviders |-> kept, state |-> h]
    ELSE LET chk == isHealthy(h, providers[i].name, t)
         IN  filterHealthy(providers, chk.state, i + 1,
                IF chk.ret THEN Append(kept, i) ELSE kept, t)

\* No listAllModels call is running.  In a call, healthyProviders holds the
\* configuration indices of the providers kept by the filter, results the
\* state of their listModels promises, out the returned array, overtaken
\* tells that a fetch settled before the fetch of an earlier provider, and,
\* once the call has returned, last is what the fetch that settled last met.
IdleListing ==
    [pc |-> "idle", healthyProviders |-> <<>>, results |-> <<>>,
     out |-> <<>>, overtaken |-> FALSE, last |-> ""]

\* -------------------------------------------------------- chatCompletions

\* A timer that is not scheduled; a scheduled timer is {deadline}.
NoTimer == {}

\* setTimeout(callback, ms) at time t
setTimeout(t, ms) == {t + ms}

\* A clearTimeout that leaves the timer scheduled.
clearTimeoutLeaves(timer) == timer

\* clearTimeout(timer)
clearTimeout(timer) == NoTimer

\* The delays of the request timers of listModels and checkReachable.
LIST_TIMEOUT_MS == 10000
PROBE_TIMEOUT_MS == 5000

\* The request timer of a listModels call started at t when the call
\* returns: it is created before the try block, has fired (and is no longer
\* scheduled) when it aborted the fetch, and is cleared after the fetch and
\* in the catch block.
listModelsTimeout(t, u) ==
    LET timeout == setTimeout(t, LIST_TIMEOUT_MS)
        left == IF u.fetch = "aborted" THEN NoTimer ELSE timeout
    IN  clearTimeout(left)

\* The request timer of a checkReachable call started at t when the call
\* returns: it is created inside the try block and cleared after the fetch;
\* the catch block returns false and clears nothing.
checkReachableTimeout(t, u) ==
    LET timeout == setTimeout(t, PROBE_TIMEOUT_MS)
        left == IF u.fetch = "aborted" THEN NoTimer ELSE timeout
    IN  IF u.fetch = "responds" THEN clearTimeout(left) ELSE left

\* Mutant of resetTimer: a timer that is running is left as it is.
resetTimerOnce(timer, t, idleMs) ==
    IF timer = NoTimer THEN setTimeout(t, idleMs) ELSE timer

\* resetTimer of withStreamTimeout: clearTimeout(timer), then
\* timer = setTimeout(() => controller.abort(), idleMs).
resetTimer(timer, t, idleMs) == setTimeout(t, idleMs)

\* Mutant of chained: the caller's signal is not listened to.
chainedNever(signal) == FALSE

\* if (signal) signal.addEventListener("abort", ..., { once: true }): the
\* listener runs when an abort event is dispatched on a signal that was
\* supplied.
chained(signal) == signal # "none"

\* No chatCompletions call is running.  In a call, signal is the state of the
\* caller's AbortSignal ("none" when the caller gave none), aborted tells
\* whether controller.abort() has run, timeout is the request timer, timer
\* the idle timer of the guarded stream, last the time the stream began or
\* delivered its last chunk, chunks the number of chunks delivered,
\* outcome how the call or its stream ended and by who called
\* controller.abort(): the request timer, the idle timer or the listener on
\* the caller's signal.
IdleCall ==
    [pc |-> "idle", signal |-> "none", aborted |-> FALSE,
     timeout |-> NoTimer, timer |-> NoTimer, last |-> 0, chunks |-> 0,
     outcome |-> "", by |-> ""]

\* The call chatCompletions(provider, body, signal) made at time t, up to its
\* await of fetch: the controller is new, the request timer is set, and a
\* listener is added to the signal when one is given.  signal.aborted is not
\* read: on a signal that is aborted already no abort event is dispatched
\* any more, so the listener never runs.
chatCompletionsCall(signal, t) ==
    [IdleCall EXCEPT !.pc = "fetch", !.signal = signal,
                     !.timeout = setTimeout(t, TIMEOUT_MS)]

\* ------------------------------------------------------------ RequestLogger

\* A flush() call that is not pending.
IdleFlush == [pc |-> "idle", lines |-> <<>>]

\* new RequestLogger(): the buffer is empty and the flush timer is set.
\* Entries are numbered in the order of the log() calls; logged counts them.
\* calls holds the pending flush() calls with their local lines, appended
\* the entries that appendFile wrote, in the order written, failed the
\* entries of the appendFile calls that rejected.  shutdown tells how far
\* shutdown() has come, upto the number of entries logged when it was
\* called and waits the flush() call it awaits.
NewLogger ==
    [buffer |-> <<>>, flushTimer |-> TRUE, flushing |-> FALSE,
     rotating |-> FALSE, calls |-> [f \in FlushCalls |-> IdleFlush],
     appended |-> <<>>, failed |-> {}, logged |-> 0,
     shutdown |-> "no", upto |-> 0, waits |-> 0]

\* A flush that never takes the logger for busy.
busyNever(flushing) == FALSE

\* this.flushing, as read by the guard of flush().
busy(flushing) == flushing

\* flush() up to its first await, as call f: it returns at once when the
\* buffer is empty or a flush is in progress; otherwise it sets the flag,
\* takes the whole buffer with splice(0) and awaits appendFile.
flushBegins(lg, f) ==
    IF lg.buffer = <<>> \/ busy(lg.flushing) THEN lg
    ELSE [lg EXCEPT !.flushing = TRUE,
                    !.buffer = <<>>,
                    !.calls[f] = [pc |-> "append", lines |-> lg.buffer]]

\* The finally block of flush(), and the return of call f: a shutdown()
\* that awaits this call resolves.
flushEnds(lg, f) ==
    [lg EXCEPT !.flushing = FALSE,
               !.calls[f] = IdleFlush,
               !.shutdown = IF lg.waits = f THEN "resolved" ELSE @,
               !.waits = IF lg.waits = f THEN 0 ELSE @]

\* ---------------------------------------------------------------- /health

\* Mutant of get: the read goes through the recovery check of isHealthy.
getRecovering(h, providerName) ==
    [ret |-> IF providerName \in DOMAIN h
             THEN {isHealthy(h, providerName, now).state[providerName]}
             ELSE {},
     state |-> isHealthy(h, providerName, now).state]

\* HealthTracker.get: the stored ProviderHealth (undefined for an unknown
\* name) and the tracker state after the call.
get(h, providerName) ==
    [ret |-> IF providerName \in DOMAIN h THEN {h[providerName]} ELSE {},
     state |-> h]

\* HealthTracker.getAll: the stored records in insertion order, which is the
\* configuration order, and the tracker state after the call.
getAll(h, providers) ==
    [ret |-> [i \in 1..Len(providers) |-> h[providers[i].name]],
     state |-> h]

\* const cacheKey = provider.baseUrl
cacheKey(provider) == provider.baseUrl

\* A freshness test that looks at the presence of the entry only.
isFreshForever(entry, t) == entry # {}

\* A freshness test that takes no entry for fresh.
isFreshNever(entry, t) == FALSE

\* entry && Date.now() - entry.cachedAt < REACHABILITY_TTL_MS
isFresh(entry, t) ==
    entry # {} /\ \A e \in entry : t - e.cachedAt < REACHABILITY_TTL_MS

\* What the probe of checkReachable meets, and what checkReachable returns:
\* response.ok, or false when fetch throws or times out.
ProbeAnswers == {"ok", "notok", "throw"}
checkReachable(answer) == answer = "ok"

\* The tracker state after health.get was called for the providers from
\* index i on.
RECURSIVE afterGets(_, _, _)
afterGets(providers, h, i) ==
    IF i > Len(providers) THEN h
    ELSE afterGets(providers, get(h, providers[i].name).state, i + 1)

\* The entry of the /health body for a provider: health?.healthy ?? false
\* and health?.consecutiveFailures ?? 0 read from the record get returned,
\* which is the tracker's own object.
healthEntry(provider, h, reachable) ==
    LET stored == IF provider.name \in DOMAIN h THEN {h[provider.name]} ELSE {}
    IN  [name |-> provider.name,
         healthy |-> IF stored = {} THEN FALSE
                     ELSE (CHOOSE x \in stored : TRUE).healthy,
         reachable |-> reachable,
         consecutiveFailures |->
             IF stored = {} THEN 0
             ELSE (CHOOSE x \in stored : TRUE).consecutiveFailures]

\* status: allHealthy ? 200 : 503
healthStatus(entries) ==
    IF \A i \in DOMAIN entries : \A e \in entries[i] : e.healthy
    THEN 200 ELSE 503

\* No handleHealth call is running.  In a call, entries holds for every
\* provider index the entry its callback has built, if it has; status is the
\* HTTP status of the response, once all entries are there.
IdleReport == [pc |-> "idle", entries |-> <<>>, status |-> 0]

\* No call has been made on the HealthTracker directly.  After a call, name
\* is the method, arg the provider name given and ret what isHealthy
\* returned.  For a call of listModels or checkReachable, name is the
\* function, arg the provider's name, input what the upstream did and ret
\* the value the promise resolved with.
NoOp ==
    [name |-> "", arg |-> "", input |-> {}, ret |-> {}, timeout |-> {}]

\* A request slot on which routeChatCompletions is not running.  calls lists
\* the providers chatCompletions was called on, hlog the isHealthy calls of
\* the request with their answers and the recoveries they made; in a
\* returned result resp is the answer of the chosen provider, pre the
\* ProviderHealth it had when the answer arrived, and thrown tells that the
\* result was returned right after the catch block ran.
IdleRequest ==
    [pc |-> "idle", model |-> "", idx |-> 0, attempted |-> <<>>,
     skipped |-> <<>>, out |-> {}, calls |-> <<>>, hlog |-> <<>>,
     resp |-> NoOutcome, pre |-> {}, thrown |-> FALSE]

\* The request record after the loop ran to its next suspension point.
afterLoop(rq, w, model) ==
    [rq EXCEPT
        !.pc = IF w.awaiting THEN "await" ELSE "done",
        !.model = model,
        !.idx = w.idx,
        !.attempted = w.attempted,
        !.skipped = w.skipped,
        !.hlog = rq.hlog
                 \o SelectSeq(w.ops, LAMBDA o : o[1] \in {"isHealthy", "recover"}),
        !.calls = IF w.awaiting THEN Append(rq.calls, config[w.idx].name)
                  ELSE rq.calls,
        !.out = IF w.awaiting THEN {}
                ELSE {exhaustedResult(model, w.attempted, w.skipped)}]

\* The streak counters after the HealthTracker calls ops: a recordFailure
\* adds one, a recordSuccess and a recovery start the count again.
RECURSIVE streakAfter(_, _)
streakAfter(sk, ops) ==
    IF ops = <<>> THEN sk
    ELSE LET o == Head(ops)
             n == o[2]
         IN  IF o[1] = "recordFailure"
             THEN streakAfter([sk EXCEPT ![n] = @ + 1], Tail(ops))
             ELSE IF o[1] \in {"recordSuccess", "recover"}
             THEN streakAfter([sk EXCEPT ![n] = 0], Tail(ops))
             ELSE streakAfter(sk, Tail(ops))

\* No RouteResult waits for its caller.  A returned RouteResult is read by
\* the awaiting caller only and the caller resumes before the next I/O event
\* is handled, so the steps of other requests are taken after the hand-over.
NoReturnPending == \A r \in Requests : req[r].pc # "done"

\* routeChatCompletions(model, body) is called: the loop runs synchronously
\* up to the first await.
RouteChatCompletionsBegins(r, model) ==
    /\ NoReturnPending
    /\ req[r].pc = "idle"
    /\ \A r2 \in Requests : r2 < r => req[r2].pc # "idle"
    /\ Cardinality({r2 \in Requests : req[r2].pc # "idle"})
          < InFlightLimit(config)
    /\ LET w == routeLoop(config, health, 1, model, <<>>, <<>>, <<>>, now)
       IN  /\ health' = w.state
           /\ req' = [req EXCEPT ![r] = afterLoop(IdleRequest, w, model)]
           /\ streak' = streakAfter(streak, w.ops)

\* routeChatCompletions(model, body) next to upstream calls that are not
\* followed one by one: what a call yields is given when it settles.
RouteChatCompletions(r, model) ==
    /\ RouteChatCompletionsBegins(r, model)
    /\ UNCHANGED <<fixed, now, ticks, aside>>

\* await chatCompletions(...) settles with outcome o and the loop resumes:
\* the Router's own steps up to the next await or the return.
ChatCompletionsResumes(r, o) ==
    /\ NoReturnPending
    /\ req[r].pc = "await"
    /\ LET rq == req[r]
           provider == config[rq.idx]
           mf == NullishOr(provider.maxFailures, 3)
           cd == NullishOr(provider.cooldownSeconds, 60)
       IN  IF o.kind = "status" /\ inTerminalRange(o.status)
              /\ ~isSoftMiss(provider, o.status)
           THEN /\ health' = recordSuccess(health, provider.name)
                /\ streak' = [streak EXCEPT ![provider.name] = 0]
                /\ req' = [req EXCEPT ![r] =
                     [rq EXCEPT
                        !.pc = "done",
                        !.resp = o,
                        !.pre = {health[provider.name]},
                        !.out = {routeResult(provider, o.status,
                                             rq.attempted, rq.skipped)}]]
           ELSE LET failed == ~(o.kind = "status" /\ inTerminalRange(o.status))
                    h1 == IF failed
                          THEN recordFailure(health, provider.name, mf, cd, now)
                          ELSE health
                    ops1 == IF failed
                            THEN <<<<"recordFailure", provider.name, TRUE>>>>
                            ELSE <<>>
                    w == routeLoop(config, h1, nextIndex(rq.idx), rq.model,
                                   rq.attempted, rq.skipped, ops1, now)
                IN  /\ health' = w.state
                    /\ streak' = streakAfter(streak, w.ops)
                    /\ req' = [req EXCEPT ![r] =
                          [afterLoop(rq, w, rq.model) EXCEPT
                             !.thrown = ~w.awaiting /\ o.kind = "throw"]]

\* The same next to upstream calls that are not followed one by one.
ChatCompletionsSettles(r, o) ==
    /\ ChatCompletionsResumes(r, o)
    /\ UNCHANGED <<fixed, now, ticks, aside>>

\* The caller (handleChatCompletions) has consumed the RouteResult.
Consume(r) ==
    /\ req[r].pc = "done"
    /\ req' = [req EXCEPT ![r] = IdleRequest]
    /\ UNCHANGED <<fixed, health, now, ticks, streak, aside>>

\* Time passes: by one second, or up to a pending cooldown deadline.
TickSteps ==
    {1000} \cup {health[n].cooldownUntil - now :
                   n \in {m \in DOMAIN health : health[m].cooldownUntil > now}}

\* The steps of the clock from now to a pending cooldown deadline.
DeadlineSteps == TickSteps \ {1000}

Tick(d) ==
    /\ NoReturnPending
    /\ ticks < MaxTicks
    /\ now' = now + d
    /\ ticks' = ticks + 1
    /\ UNCHANGED <<fixed, health, req, streak, aside>>

\* The state after createServer(config), for config.providers one of chains.
Start(chains) ==
    /\ config \in chains
    /\ health = NewHealthTracker(config)
    /\ now = StartTime
    /\ ticks = 0
    /\ req = [r \in Requests |-> IdleRequest]
    /\ streak = [n \in DOMAIN health |-> 0]
    /\ listing = IdleListing
    /\ call = [c \in Calls |-> IdleCall]
    /\ cache = [k \in {cacheKey(config[i]) : i \in 1..Len(config)} |-> {}]
    /\ report = IdleReport
    /\ op = NoOp
    /\ logger = NewLogger

Init == Start(Configs)

Next ==
    \/ \E r \in Requests, m \in Models : RouteChatCompletions(r, m)
    \/ \E r \in Requests, o \in Outcomes : ChatCompletionsSettles(r, o)
    \/ \E r \in Requests : Consume(r)
    \/ \E d \in TickSteps : Tick(d)

Spec == Init /\ [][Next]_vars

\* ------------------------------------------------- GET /v1/models, /health

\* The values the Router passes to recordFailure for the provider named n.
OwnMaxFailuresOf(n) ==
    NullishOr((CHOOSE p \in Range(config) : p.name = n).maxFailures, 3)
OwnCooldownSecondsOf(n) ==
    NullishOr((CHOOSE p \in Range(config) : p.name = n).cooldownSeconds, 60)

\* An attempt of a routed request on provider n, healthy so far, fails while
\* the endpoints below are served: the recordFailure of router.ts lines 93
\* and 102.
AttemptFails(n) ==
    /\ listing.pc # "done"
    /\ health[n].healthy
    /\ health' = recordFailure(health, n, OwnMaxFailuresOf(n),
                               OwnCooldownSecondsOf(n), now)
    /\ streak' = [streak EXCEPT ![n] = @ + 1]
    /\ UNCHANGED <<fixed, now, ticks, req, listing, call, cache, report, op>>

\* The listAllModels call after its results changed: it returns when
\* Promise.allSettled resolves.
afterSettle(l, results) ==
    IF allSettled(results)
    THEN [l EXCEPT !.pc = "done", !.results = results,
                   !.out = collectModels(results, 1,
                              [seen |-> {}, allModels |-> <<>>])]
    ELSE [l EXCEPT !.pc = "await", !.results = results]

\* listAllModels() is called: the filter runs and a listModels call is
\* started for every provider it keeps.
ListAllModels ==
    /\ listing.pc = "idle"
    /\ LET f == filterHealthy(config, health, 1, <<>>, now)
           recovered == {n \in DOMAIN health :
                            ~health[n].healthy /\ f.state[n].healthy}
       IN  /\ health' = f.state
           /\ streak' = [n \in DOMAIN streak |->
                            IF n \in recovered THEN 0 ELSE streak[n]]
           /\ listing' = afterSettle(
                 [IdleListing EXCEPT !.healthyProviders = f.healthyProviders],
                 [k \in 1..Len(f.healthyProviders) |-> Pending])
    /\ UNCHANGED <<fixed, now, ticks, req, call, cache, report, op>>

\* The listModels promise of position i settles; the fetch met answer a.
ListModelsSettles(i, a) ==
    /\ listing.pc = "await"
    /\ i \in 1..Len(listing.results)
    /\ listing.results[i].status = "pending"
    /\ LET provider == config[listing.healthyProviders[i]]
           results == [listing.results EXCEPT
                          ![i] = Fulfilled(listModels(provider, a))]
       IN  listing' =
              [afterSettle(listing, results) EXCEPT
                 !.last = IF allSettled(results) THEN a.kind ELSE @,
                 !.overtaken = listing.overtaken
                     \/ \E j \in 1..(i - 1) :
                           listing.results[j].status = "pending"]
    /\ UNCHANGED <<fixed, health, now, ticks, req, streak, call, cache, report,
                   op>>

\* handleModels has sent the array listAllModels returned.
HandleModelsResponds ==
    /\ listing.pc = "done"
    /\ listing' = IdleListing
    /\ UNCHANGED <<fixed, health, now, ticks, req, streak, call, cache, report,
                   op>>

NextModels ==
    \/ ListAllModels
    \/ \E i \in 1..3, a \in ListAnswers : ListModelsSettles(i, a)
    \/ HandleModelsResponds
    \/ \E n \in DOMAIN health : AttemptFails(n)
    \/ \E d \in DeadlineSteps : Tick(d)

\* The server answering GET /v1/models while routed requests change the
\* providers' health.
SpecModels == Init /\ [][NextModels]_vars

\* -------------------------------------------- chatCompletions, streaming

\* chatCompletions(provider, body, signal) is called: the controller is
\* created, the request timer is set and fetch is awaited.
ChatCompletions(c, signal) ==
    /\ call[c].pc = "idle"
    /\ \A c2 \in Calls : c2 < c => call[c2].pc # "idle"
    /\ call' = [call EXCEPT ![c] = chatCompletionsCall(signal, now)]
    /\ UNCHANGED <<fixed, health, now, ticks, req, streak, listing, cache, report,
                   op>>

\* fetch resolves with the response head.  A text/event-stream response with
\* a body gets the guarded stream, whose start() runs at once, and the call
\* returns; any other response is read with response.text().
ResponseArrives(c, streaming) ==
    /\ call[c].pc = "fetch"
    /\ call' = [call EXCEPT ![c] =
          IF streaming
          THEN [@ EXCEPT !.pc = "stream", !.timeout = NoTimer,
                   !.timer = resetTimer(NoTimer, now, STREAM_IDLE_TIMEOUT_MS),
                   !.last = now]
          ELSE [@ EXCEPT !.pc = "text", !.timeout = NoTimer]]
    /\ UNCHANGED <<fixed, health, now, ticks, req, streak, listing, cache, report,
                   op>>

\* response.text() resolves and the call returns its ProviderResult.
TextArrives(c) ==
    /\ call[c].pc = "text"
    /\ call' = [call EXCEPT ![c] = [@ EXCEPT !.pc = "done",
                                             !.outcome = "returned"]]
    /\ UNCHANGED <<fixed, health, now, ticks, req, streak, listing, cache, report,
                   op>>

\* fetch or response.text() rejects with a transport error: the catch block
\* clears the request timer and rethrows.
FetchFails(c) ==
    /\ call[c].pc \in {"fetch", "text"}
    /\ call' = [call EXCEPT ![c] = [@ EXCEPT !.pc = "done",
                                             !.timeout = NoTimer,
                                             !.outcome = "threw"]]
    /\ UNCHANGED <<fixed, health, now, ticks, req, streak, listing, cache, report,
                   op>>

\* The call after controller.abort() ran at its current position: the
\* awaited fetch or body read rejects with an AbortError, which the catch
\* block turns into the "request timed out" error; a guarded stream that is
\* open is errored for its consumer: the response body errors, the pipe
\* aborts the writable side of the transform, and that runs cancel().
afterAbort(cl) ==
    IF cl.pc \in {"fetch", "text"}
    THEN [cl EXCEPT !.aborted = TRUE, !.pc = "done", !.timeout = NoTimer,
                    !.outcome = "timed out"]
    ELSE IF cl.pc = "stream"
    THEN [cl EXCEPT !.aborted = TRUE, !.pc = "done",
                    !.timer = clearTimeout(@), !.outcome = "errored"]
    ELSE [cl EXCEPT !.aborted = TRUE]

\* The request timer fires.
TimeoutFires(c) ==
    /\ call[c].timeout = {now}
    /\ call' = [call EXCEPT ![c] =
          afterAbort([@ EXCEPT !.timeout = NoTimer, !.by = "timeout"])]
    /\ UNCHANGED <<fixed, health, now, ticks, req, streak, listing, cache, report,
                   op>>

\* The caller aborts its signal: the abort event is dispatched and the
\* chained listener calls controller.abort().
CallerAborts(c) ==
    /\ call[c].pc \in {"fetch", "text", "stream"}
    /\ call[c].signal = "live"
    /\ call' = [call EXCEPT ![c] =
          IF chained(call[c].signal)
          THEN afterAbort([@ EXCEPT !.signal = "aborted", !.by = "signal"])
          ELSE [@ EXCEPT !.signal = "aborted"]]
    /\ UNCHANGED <<fixed, health, now, ticks, req, streak, listing, cache, report,
                   op>>

\* transform(chunk, ctrl): a chunk passes the guarded stream.
Chunk(c) ==
    /\ call[c].pc = "stream"
    /\ call[c].chunks < MaxChunks
    /\ call' = [call EXCEPT ![c] =
          [@ EXCEPT !.timer = resetTimer(@, now, STREAM_IDLE_TIMEOUT_MS),
                    !.last = now,
                    !.chunks = @ + 1]]
    /\ UNCHANGED <<fixed, health, now, ticks, req, streak, listing, cache, report,
                   op>>

\* The idle timer fires: controller.abort() errors the response body and,
\* through the pipe, the guarded stream.
IdleTimerFires(c) ==
    /\ call[c].pc = "stream"
    /\ call[c].timer = {now}
    /\ call' = [call EXCEPT ![c] =
          afterAbort([@ EXCEPT !.timer = NoTimer, !.by = "idle"])]
    /\ UNCHANGED <<fixed, health, now, ticks, req, streak, listing, cache, report,
                   op>>

\* flush(): the upstream ended the stream.
UpstreamCloses(c) ==
    /\ call[c].pc = "stream"
    /\ call' = [call EXCEPT ![c] = [@ EXCEPT !.pc = "done",
                                             !.timer = clearTimeout(@),
                                             !.outcome = "closed"]]
    /\ UNCHANGED <<fixed, health, now, ticks, req, streak, listing, cache, report,
                   op>>

\* cancel(): the consumer cancelled the readable side.
ConsumerCancels(c) ==
    /\ call[c].pc = "stream"
    /\ call' = [call EXCEPT ![c] = [@ EXCEPT !.pc = "done",
                                             !.timer = clearTimeout(@),
                                             !.outcome = "cancelled"]]
    /\ UNCHANGED <<fixed, health, now, ticks, req, streak, listing, cache, report,
                   op>>

\* The response body errors while it is streamed (the connection breaks):
\* the pipe aborts the writable side of the transform with the error, which
\* runs cancel(), and the consumer's read rejects.
UpstreamErrors(c) ==
    /\ call[c].pc = "stream"
    /\ call' = [call EXCEPT ![c] = [@ EXCEPT !.pc = "done",
                                             !.timer = clearTimeout(@),
                                             !.outcome = "broke"]]
    /\ UNCHANGED <<fixed, health, now, ticks, req, streak, listing, cache, report,
                   op>>

\* The caller has taken the outcome of the call.
Release(c) ==
    /\ call[c].pc = "done"
    /\ call' = [call EXCEPT ![c] = IdleCall]
    /\ UNCHANGED <<fixed, health, now, ticks, req, streak, listing, cache, report,
                   op>>

\* The deadlines of the timers that are scheduled.
Deadlines ==
    UNION {call[c].timeout \cup call[c].timer :
              c \in {k \in Calls : call[k].pc \in {"fetch", "text", "stream"}}}

\* Time passes, by ChunkGap or up to the next deadline, and not beyond a
\* deadline: a timer that is due fires before the clock moves on.
TimePasses(d) ==
    /\ ticks < MaxTicks
    /\ d > 0
    /\ \A t \in Deadlines : now + d <= t
    /\ \A c \in Calls : call[c].pc # "done"
    /\ now' = now + d
    /\ ticks' = ticks + 1
    /\ UNCHANGED <<fixed, health, req, streak, listing, call, cache, report,
                   op>>

InitProvider == Init /\ config = ChainSingle

NextProvider ==
    \/ \E c \in Calls, signal \in {"none", "live", "aborted"} :
          ChatCompletions(c, signal)
    \/ \E c \in Calls, streaming \in BOOLEAN : ResponseArrives(c, streaming)
    \/ \E c \in Calls : TextArrives(c)
    \/ \E c \in Calls : FetchFails(c)
    \/ \E c \in Calls : TimeoutFires(c)
    \/ \E c \in Calls : CallerAborts(c)
    \/ \E c \in Calls : Chunk(c)
    \/ \E c \in Calls : IdleTimerFires(c)
    \/ \E c \in Calls : UpstreamCloses(c)
    \/ \E c \in Calls : ConsumerCancels(c)
    \/ \E c \in Calls : UpstreamErrors(c)
    \/ \E c \in Calls : Release(c)
    \/ \E d \in {ChunkGap} \cup {t - now : t \in Deadlines} : TimePasses(d)

\* The Upstream Client serving chatCompletions calls.
SpecProvider == InitProvider /\ [][NextProvider]_vars

\* ------------------------------ routeChatCompletions with a caller's signal

\* What the awaited chatCompletions call cl yields to the Router: the
\* ProviderResult of a call that returned, with the status the upstream
\* sent, or the error the call threw.
yielded(cl, status) ==
    IF cl.outcome = "returned" THEN [kind |-> "status", status |-> status]
    ELSE [kind |-> "throw", status |-> 0]

\* routeChatCompletions(model, body, signal) is called: the loop runs to its
\* first chatCompletions(provider, body, signal), which runs to its fetch.
RouteWithSignal(r, c, model, signal) ==
    /\ call[c].pc = "idle"
    /\ RouteChatCompletionsBegins(r, model)
    /\ call' = [call EXCEPT ![c] =
          IF req'[r].pc = "await" THEN chatCompletionsCall(signal, now)
          ELSE @]
    /\ UNCHANGED <<fixed, now, ticks, listing, cache, report, op>>

\* The chatCompletions call c of request r has returned or thrown: the
\* Router resumes, and when the loop goes on to another provider the next
\* chatCompletions is called with the same signal and runs to its fetch.
AttemptSettles(r, c, status) ==
    /\ call[c].pc = "done"
    /\ ChatCompletionsResumes(r, yielded(call[c], status))
    /\ call' = [call EXCEPT ![c] =
          IF req'[r].pc = "await"
          THEN chatCompletionsCall(call[c].signal, now)
          ELSE @]
    /\ UNCHANGED <<fixed, now, ticks, listing, cache, report, op>>

\* The caller has taken the RouteResult.
RouteReturns(r, c) ==
    /\ req[r].pc = "done"
    /\ req' = [req EXCEPT ![r] = IdleRequest]
    /\ call' = [call EXCEPT ![c] = IdleCall]
    /\ UNCHANGED <<fixed, health, now, ticks, streak, listing, cache, report,
                   op>>

InitCancel == Start({ChainPair, ChainSingle})

NextCancel ==
    \/ \E m \in Models, signal \in {"none", "live", "aborted"} :
          RouteWithSignal(1, 1, m, signal)
    \/ ResponseArrives(1, FALSE)
    \/ TextArrives(1)
    \/ FetchFails(1)
    \/ TimeoutFires(1)
    \/ CallerAborts(1)
    \/ \E status \in Statuses : AttemptSettles(1, 1, status)
    \/ RouteReturns(1, 1)
    \/ \E d \in TickSteps \cup {t - now : t \in Deadlines} : TimePasses(d)

\* One routed request whose caller gave a signal or none, its upstream
\* calls followed one by one; the responses are read with response.text().
SpecCancel == InitCancel /\ [][NextCancel]_vars

\* ------------------------------------------------------------ GET /health

\* The handleHealth call after its entries changed: Promise.all resolves
\* when every callback has returned its entry.
afterEntries(rp, entries) ==
    IF \A i \in DOMAIN entries : entries[i] # {}
    THEN [rp EXCEPT !.pc = "done", !.entries = entries,
                    !.status = healthStatus(entries)]
    ELSE [rp EXCEPT !.pc = "await", !.entries = entries]

\* handleHealth is called: every callback calls health.get and looks its
\* provider up in the reachability cache; with a fresh cache entry it builds
\* its entry before any other event is handled, otherwise it awaits
\* checkReachable.
HandleHealth ==
    /\ report.pc = "idle"
    /\ LET h == afterGets(config, health, 1)
       IN  /\ health' = h
           /\ report' = afterEntries(IdleReport,
                 [i \in 1..Len(config) |->
                     LET entry == cache[cacheKey(config[i])]
                     IN  IF isFresh(entry, now)
                         THEN {healthEntry(config[i], h,
                                  (CHOOSE e \in entry : TRUE).reachable)}
                         ELSE {}])
    /\ UNCHANGED <<fixed, now, ticks, req, streak, listing, call, cache, op>>

\* The checkReachable call of provider index i settles: the answer is cached
\* and the callback builds its entry from the record it holds.
ProbeSettles(i, answer) ==
    /\ report.pc = "await"
    /\ i \in DOMAIN report.entries
    /\ report.entries[i] = {}
    /\ LET reachable == checkReachable(answer)
       IN  /\ cache' = [cache EXCEPT ![cacheKey(config[i])] =
                          {[reachable |-> reachable, cachedAt |-> now]}]
           /\ report' = afterEntries(report,
                 [report.entries EXCEPT
                     ![i] = {healthEntry(config[i], health, reachable)}])
    /\ UNCHANGED <<fixed, health, now, ticks, req, streak, listing, call, op>>

\* handleHealth has sent its response.
HealthResponds ==
    /\ report.pc = "done"
    /\ report' = IdleReport
    /\ UNCHANGED <<fixed, health, now, ticks, req, streak, listing, call,
                   cache, op>>

\* The steps of the clock from now to the expiry of a cache entry.
ExpirySteps ==
    {e.cachedAt + REACHABILITY_TTL_MS - now :
        e \in UNION {cache[k] : k \in DOMAIN cache}} \ {0}

NextHealth ==
    \/ HandleHealth
    \/ \E i \in 1..3, answer \in ProbeAnswers : ProbeSettles(i, answer)
    \/ HealthResponds
    \/ \E n \in DOMAIN health : AttemptFails(n)
    \/ \E d \in DeadlineSteps \cup ExpirySteps : Tick(d)

\* The server answering GET /health while routed requests change the
\* providers' health.
InitHealth == Start({ChainPair, ChainSingle, ChainMirror})

SpecHealth == InitHealth /\ [][NextHealth]_vars

\* ------------------------------------------- HealthTracker, used directly

\* A name no provider of the configuration has.
UnknownName == "nobody"

\* The names a caller of the HealthTracker may pass.
TrackerNames == DOMAIN health \cup {UnknownName}

\* The thresholds and cooldowns (in seconds) a caller may pass.
ThresholdArgs == {1, 2}
CooldownArgs == {1, 2}

\* tracker.isHealthy(n)
IsHealthy(n) ==
    /\ LET chk == isHealthy(health, n, now)
       IN  /\ health' = chk.state
           /\ streak' = IF chk.recovered THEN [streak EXCEPT ![n] = 0]
                        ELSE streak
           /\ op' = [name |-> "isHealthy", arg |-> n, input |-> {},
                     ret |-> {chk.ret}, timeout |-> {}]
    /\ UNCHANGED <<fixed, now, ticks, req, listing, call, cache, report>>

\* tracker.recordSuccess(n)
RecordSuccess(n) ==
    /\ health' = recordSuccess(health, n)
    /\ streak' = IF n \in DOMAIN streak THEN [streak EXCEPT ![n] = 0]
                 ELSE streak
    /\ op' = [name |-> "recordSuccess", arg |-> n, input |-> {},
              ret |-> {}, timeout |-> {}]
    /\ UNCHANGED <<fixed, now, ticks, req, listing, call, cache, report>>

\* tracker.recordFailure(n, maxFailures, cooldownSeconds)
RecordFailure(n, maxFailures, cooldownSeconds) ==
    /\ n \in DOMAIN health =>
          health[n].consecutiveFailures < MaxFailureCount
    /\ health' = recordFailure(health, n, maxFailures, cooldownSeconds, now)
    /\ streak' = IF n \in DOMAIN streak THEN [streak EXCEPT ![n] = @ + 1]
                 ELSE streak
    /\ op' = [name |-> "recordFailure", arg |-> n, input |-> {},
              ret |-> {}, timeout |-> {}]
    /\ UNCHANGED <<fixed, now, ticks, req, listing, call, cache, report>>

InitTracker == Start({ChainPair})

NextTracker ==
    \/ \E n \in TrackerNames : IsHealthy(n)
    \/ \E n \in TrackerNames : RecordSuccess(n)
    \/ \E n \in TrackerNames, mf \in ThresholdArgs, cd \in CooldownArgs :
          RecordFailure(n, mf, cd)
    \/ \E d \in TickSteps : Tick(d)

\* A HealthTracker whose methods are called in any order, with any of the
\* names and arguments above.
SpecTracker == InitTracker /\ [][NextTracker]_vars

\* ------------------------- HealthTracker, the clock read at every Date.now()

\* The cooldowns (in seconds) a caller may pass, none among them, and the
\* milliseconds the clock may advance between the two Date.now() calls of
\* one recordFailure.
StampCooldownArgs == {0, 1}
LateSteps == {0, 1}

\* tracker.recordFailure(n, maxFailures, cooldownSeconds) while the clock
\* advances by late milliseconds between its two Date.now() calls.
RecordFailureAt(n, maxFailures, cooldownSeconds, late) ==
    /\ health[n].consecutiveFailures < MaxFailureCount
    /\ late > 0 => ticks < MaxTicks
    /\ health' = recordFailureAt(health, n, maxFailures, cooldownSeconds,
                                 now, now + late)
    /\ now' = now + late
    /\ ticks' = IF late > 0 THEN ticks + 1 ELSE ticks
    /\ streak' = [streak EXCEPT ![n] = @ + 1]
    /\ op' = [name |-> "recordFailure", arg |-> n,
              input |-> {[maxFailures |-> maxFailures,
                          cooldownSeconds |-> cooldownSeconds]},
              ret |-> {}, timeout |-> {}]
    /\ UNCHANGED <<fixed, req, listing, call, cache, report>>

InitStamps == Start({ChainSingle})

NextStamps ==
    \/ \E n \in DOMAIN health : IsHealthy(n)
    \/ \E n \in DOMAIN health : RecordSuccess(n)
    \/ \E n \in DOMAIN health, mf \in ThresholdArgs,
          cd \in StampCooldownArgs, late \in LateSteps :
          RecordFailureAt(n, mf, cd, late)
    \/ \E d \in TickSteps : Tick(d)

\* A HealthTracker whose methods are called in any order while the clock
\* runs, also between two statements of one method.
SpecStamps == InitStamps /\ [][NextStamps]_vars

\* ------------------------------------------------ RequestLogger, in use

\* logger.log(entry)
Log ==
    /\ logger.logged < MaxEntries
    /\ logger' = [logger EXCEPT !.logged = @ + 1,
                                !.buffer = Append(@, logger.logged + 1)]
    /\ UNCHANGED <<config, health, now, ticks, req, streak, listing, call,
                   cache, report, op>>

\* The interval timer fires and calls this.flush(), as call f.
TimerFlush(f) ==
    /\ logger.flushTimer
    /\ logger.calls[f].pc = "idle"
    /\ \A g \in FlushCalls : g < f => logger.calls[g].pc # "idle"
    /\ logger' = flushBegins(logger, f)
    /\ UNCHANGED <<config, health, now, ticks, req, streak, listing, call,
                   cache, report, op>>

\* logger.shutdown() is called: it clears the interval timer and awaits
\* this.flush(), as call f.  When that flush() returns at once, so does
\* shutdown().
Shutdown(f) ==
    /\ logger.shutdown = "no"
    /\ logger.calls[f].pc = "idle"
    /\ \A g \in FlushCalls : g < f => logger.calls[g].pc # "idle"
    /\ LET stopped == [logger EXCEPT !.flushTimer = FALSE,
                                     !.upto = logger.logged]
           begun == flushBegins(stopped, f)
           pending == begun.calls[f].pc # "idle"
       IN  logger' = [begun EXCEPT
                        !.shutdown = IF pending THEN "await" ELSE "resolved",
                        !.waits = IF pending THEN f ELSE 0]
    /\ UNCHANGED <<config, health, now, ticks, req, streak, listing, call,
                   cache, report, op>>

\* The appendFile of flush() call f settles.  Written, the lines are in the
\* file and rotateIfNeeded() runs to its await of stat (or returns at once
\* when a rotation is in progress); rejected, the catch block logs the
\* error, the lines are gone, and the finally block ends the flush.
AppendSettles(f, written) ==
    /\ logger.calls[f].pc = "append"
    /\ LET lines == logger.calls[f].lines
       IN  logger' =
             IF ~written
             THEN flushEnds([logger EXCEPT !.failed = @ \cup Range(lines)], f)
             ELSE IF logger.rotating
             THEN flushEnds([logger EXCEPT !.appended = @ \o lines], f)
             ELSE [logger EXCEPT !.appended = @ \o lines,
                                 !.rotating = TRUE,
                                 !.calls[f].pc = "rotate"]
    /\ UNCHANGED <<config, health, now, ticks, req, streak, listing, call,
                   cache, report, op>>

\* rotateIfNeeded() of flush() call f ends, with or without a rotation and
\* with or without an error, and the finally block of flush() runs.
RotateSettles(f) ==
    /\ logger.calls[f].pc = "rotate"
    /\ logger' = flushEnds([logger EXCEPT !.rotating = FALSE], f)
    /\ UNCHANGED <<config, health, now, ticks, req, streak, listing, call,
                   cache, report, op>>

InitLogger == Start({ChainSingle})

NextLogger ==
    \/ Log
    \/ \E f \in FlushCalls : TimerFlush(f)
    \/ \E f \in FlushCalls : Shutdown(f)
    \/ \E f \in FlushCalls, written \in BOOLEAN : AppendSettles(f, written)
    \/ \E f \in FlushCalls : RotateSettles(f)

\* The RequestLogger with entries logged, the interval timer firing and
\* shutdown() called at any moment.
SpecLogger == InitLogger /\ [][NextLogger]_vars

\* ---------------------------------- listModels, checkReachable, called alone

\* await listModels(config[i]) against an upstream that does u.
ListModels(i, u) ==
    /\ op' = [name |-> "listModels", arg |-> config[i].name, input |-> {u},
              ret |-> {listModels(config[i], listAnswer(u))},
              timeout |-> listModelsTimeout(now, u)]
    /\ UNCHANGED <<fixed, health, now, ticks, req, streak, listing, call,
                   cache, report>>

\* await checkReachable(config[i]) against an upstream that does u.
CheckReachable(i, u) ==
    /\ op' = [name |-> "checkReachable", arg |-> config[i].name,
              input |-> {u}, ret |-> {checkReachable(probeAnswer(u))},
              timeout |-> checkReachableTimeout(now, u)]
    /\ UNCHANGED <<fixed, health, now, ticks, req, streak, listing, call,
                   cache, report>>

NextUpstream ==
    \/ \E i \in 1..Len(config), u \in Upstreams : ListModels(i, u)
    \/ \E i \in 1..Len(config), u \in Upstreams : CheckReachable(i, u)

\* The two best-effort upstream operations, called with any provider against
\* any upstream behaviour.
SpecUpstream == Init /\ [][NextUpstream]_vars

\* ------------------------------------ routing next to GET /health reports

InitReach == Start({ChainMirror})

NextReach ==
    \/ \E m \in Models : listing.pc = "idle" /\ RouteChatCompletions(1, m)
    \/ \E o \in Outcomes : ChatCompletionsSettles(1, o)
    \/ Consume(1)
    \/ req[1].pc = "idle" /\ ListAllModels
    \/ \E i \in 1..2, a \in ListAnswers : ListModelsSettles(i, a)
    \/ HandleModelsResponds
    \/ HandleHealth
    \/ \E i \in 1..2, answer \in ProbeAnswers : ProbeSettles(i, answer)
    \/ HealthResponds
    \/ \E d \in DeadlineSteps \cup ExpirySteps : Tick(d)

\* The server routing a request or listing models, one at a time, while
\* GET /health requests fill the reachability cache.
SpecReach == InitReach /\ [][NextReach]_vars

\* ------------------------------------------------ POST /v1/chat/completions

\* The model member of a parsed body: absent, or a value of some JSON type.
ModelFields ==
    {[type |-> "absent", value |-> ""],
     [type |-> "number", value |-> "5"],
     [type |-> "string", value |-> ""]}
    \cup {[type |-> "string", value |-> m] : m \in Models}

\* What JSON.parse makes of a body: it throws, or yields null, a number, a
\* string, an array or an object; only an object has members.
Parsings ==
    {[json |-> k, model |-> [type |-> "absent", value |-> ""]] :
        k \in {"invalid", "null", "number", "string", "array"}}
    \cup {[json |-> "object", model |-> f] : f \in ModelFields}

\* The sizes of a body: its length in UTF-16 code units (String.length) and
\* in bytes; a character outside ASCII takes more bytes than code units.
BodySizes ==
    {[units |-> 2, bytes |-> 2],
     [units |-> MAX_BODY_BYTES, bytes |-> MAX_BODY_BYTES],
     [units |-> MAX_BODY_BYTES, bytes |-> MAX_BODY_BYTES + 1],
     [units |-> MAX_BODY_BYTES + 1, bytes |-> MAX_BODY_BYTES + 1]}

\* The requests a client may send to /v1/chat/completions.
HttpRequests ==
    [method : {"POST", "GET"}, readable : BOOLEAN, size : BodySizes,
     parsed : Parsings]

\* A response built by the handler, and the handler's promise rejecting with
\* an error nothing catches, which Bun.serve answers with its own 500.
Answer(status) == [status |-> status, thrown |-> FALSE, routed |-> FALSE]
Uncaught == [status |-> 500, thrown |-> TRUE, routed |-> FALSE]
Routed == [status |-> 0, thrown |-> FALSE, routed |-> TRUE]

\* body.length > MAX_BODY_BYTES
tooLarge(size) == size.units > MAX_BODY_BYTES

\* parsed.model: the member of an object, undefined on a number, a string or
\* an array, and a TypeError on null (no value: the empty set).
modelOf(parsed) ==
    IF parsed.json = "null" THEN {}
    ELSE IF parsed.json = "object" THEN {parsed.model}
    ELSE {[type |-> "absent", value |-> ""]}

\* handleChatCompletions up to the call of the router: the answer it returns
\* early, the uncaught error, or the decision to route.
admit(request) ==
    IF request.method # "POST" THEN Answer(405)
    ELSE IF ~request.readable THEN Answer(400)
    ELSE IF tooLarge(request.size) THEN Answer(413)
    ELSE IF request.parsed.json = "invalid" THEN Answer(400)
    ELSE IF modelOf(request.parsed) = {} THEN Uncaught
    ELSE LET model == CHOOSE f \in modelOf(request.parsed) : TRUE
         IN  IF model.type # "string" \/ model.value = ""
             THEN Answer(400)
             ELSE Routed

\* A handler that answers 200 when the router has no result.
respondStatusAlwaysOk(out) ==
    IF out.result = {} THEN 200
    ELSE (CHOOSE u \in out.result : TRUE).status

\* The status of the response built from a RouteResult: 502 when it has no
\* result, else upstream.status.
respondStatus(out) ==
    IF out.result = {} THEN 502
    ELSE (CHOOSE u \in out.result : TRUE).status

\* handleChatCompletions is called with a request: it answers early, fails,
\* or calls routeChatCompletions(parsed.model, body).
HandleChatCompletions(r, request) ==
    IF admit(request).routed
    THEN RouteChatCompletions(r, request.parsed.model.value)
    ELSE /\ req[r].pc = "idle"
         /\ op' = [name |-> "handleChatCompletions", arg |-> "",
                   input |-> {request}, ret |-> {admit(request)},
                   timeout |-> {}]
         /\ UNCHANGED <<fixed, health, now, ticks, req, streak, listing,
                        call, cache, report>>

\* handleChatCompletions resumes with the RouteResult and builds its response.
HandleChatCompletionsResponds(r) ==
    /\ req[r].pc = "done"
    /\ req' = [req EXCEPT ![r] = IdleRequest]
    /\ op' = [name |-> "respond", arg |-> req[r].model, input |-> req[r].out,
              ret |-> {Answer(respondStatus(CHOOSE out \in req[r].out : TRUE))},
              timeout |-> {}]
    /\ UNCHANGED <<fixed, health, now, ticks, streak, listing, call, cache,
                   report>>

InitIngress == Start({ChainSingle})

NextIngress ==
    \/ \E request \in HttpRequests : HandleChatCompletions(1, request)
    \/ \E o \in Outcomes : ChatCompletionsSettles(1, o)
    \/ HandleChatCompletionsResponds(1)
    \/ \E d \in DeadlineSteps : Tick(d)

\* The server answering POST /v1/chat/completions, one request at a time.
SpecIngress == InitIngress /\ [][NextIngress]_vars

\* ------------------------------------------------- routing any model string

InitStrings == Start({ChainPair, ChainMirror})

NextStrings ==
    \/ \E m \in ModelStrings : RouteChatCompletions(1, m)
    \/ \E o \in Outcomes : ChatCompletionsSettles(1, o)
    \/ Consume(1)
    \/ \E d \in DeadlineSteps : Tick(d)

\* The router called directly, as in its tests, with any model string, one
\* request at a time.
SpecStrings == InitStrings /\ [][NextStrings]_vars

\* ------------------------------------------------------------------ claims

\* The provider of the configuration named n.
ProviderNamed(n) == CHOOSE p \in Range(config) : p.name = n

\* A provider's list holds the requested model or "*".
Matches(p, m) == "*" \in Range(p.models) \/ m \in Range(p.models)

\* A provider's own failure threshold and cooldown, with the defaults.
OwnMaxFailures(p) ==
    IF p.maxFailures = {} THEN 3 ELSE CHOOSE v \in p.maxFailures : TRUE
OwnCooldownSeconds(p) ==
    IF p.cooldownSeconds = {} THEN 60 ELSE CHOOSE v \in p.cooldownSeconds : TRUE

\* The ProviderHealth of a provider with no failures and no cooldown.
Cleared(n) ==
    [name |-> n, healthy |-> TRUE, consecutiveFailures |-> 0,
     unhealthySince |-> 0, cooldownUntil |-> 0]

\* Number of positions of sequence s that satisfy Test.
Count(s, Test(_)) == Cardinality({k \in 1..Len(s) : Test(s[k])})

\* The providers a request has gone through so far.
Visited(rq) ==
    {config[i] : i \in {j \in 1..Len(config) : j <= rq.idx}}

\* C1: a chatCompletions call goes to a provider only after its model list
\* matched the requested model (or holds "*") and isHealthy returned true for
\* it in the same request; a provider failing either check is in skipped with
\* its tag and gets no call in that request.
C1_CallOnlyAfterBothChecks ==
    \A r \in Requests :
        LET rq == req[r]
        IN  /\ \A n \in Range(rq.calls) :
                  /\ Matches(ProviderNamed(n), rq.model)
                  /\ <<"isHealthy", n, TRUE>> \in Range(rq.hlog)
                  /\ <<"isHealthy", n, FALSE>> \notin Range(rq.hlog)
            /\ \A p \in Visited(rq) :
                  /\ ~Matches(p, rq.model) =>
                        /\ <<p.name, "no-model">> \in Range(rq.skipped)
                        /\ p.name \notin Range(rq.calls)
                  /\ <<"isHealthy", p.name, FALSE>> \in Range(rq.hlog) =>
                        /\ <<p.name, "unhealthy">> \in Range(rq.skipped)
                        /\ p.name \notin Range(rq.calls)

\* C1 witness: one request skipped a provider for its models, skipped another
\* as unhealthy and called a third.
C1_Witness ==
    \E r \in Requests :
        /\ req[r].pc = "await"
        /\ \E e \in Range(req[r].skipped) : e[2] = "no-model"
        /\ \E e \in Range(req[r].skipped) : e[2] = "unhealthy"
        /\ req[r].calls # <<>>

\* C5: a request that ends without a terminal answer returns provider = null,
\* result = null and an error naming the attempted and the skipped providers,
\* and every configured provider is exactly once in attempted or in skipped.
C5_ExhaustedResult ==
    \A r \in Requests :
        (req[r].pc = "done" /\ req[r].resp = NoOutcome) =>
            \E out \in req[r].out :
                /\ req[r].out = {out}
                /\ out.provider = {}
                /\ out.result = {}
                /\ out.error = {[model |-> req[r].model,
                                 attempted |-> out.attempted,
                                 skipped |-> out.skipped]}
                /\ \A i \in 1..Len(config) :
                      Count(out.attempted, LAMBDA a : a = config[i].name)
                      + Count(out.skipped, LAMBDA e : e[1] = config[i].name) = 1

\* C5 witness: an exhausted result with attempted and skipped providers.
C5_Witness ==
    \E r \in Requests :
        /\ req[r].pc = "done"
        /\ \E out \in req[r].out :
              /\ out.provider = {}
              /\ out.attempted # <<>>
              /\ out.skipped # <<>>

\* The cooldown deadline of provider n, if any, is still ahead.
BeforeDeadline(n) ==
    health[n].cooldownUntil = 0 \/ now < health[n].cooldownUntil

Failing(o) == o.kind = "throw" \/ (o.kind = "status" /\ o.status >= 500)

\* What chatCompletions yields is a 404 of a provider that lists "*".
SoftMiss(p, o) ==
    o.kind = "status" /\ o.status = 404 /\ "*" \in Range(p.models)

\* What chatCompletions yields is a status in [200, 500) other than the 404
\* of a wildcard provider.
Terminal(p, o) ==
    /\ o.kind = "status"
    /\ o.status >= 200
    /\ o.status < 500
    /\ ~SoftMiss(p, o)

\* The names in a skipped list.
SkippedNames(skipped) == {e[1] : e \in Range(skipped)}

\* After the step, request r goes on with a provider later in the chain or
\* has run out of providers; it has not returned a provider's answer.
GoesOn(r) ==
    /\ req'[r].pc \in {"await", "done"}
    /\ req'[r].pc = "await" =>
          /\ req'[r].idx > req[r].idx
          /\ \A j \in (req[r].idx + 1)..(req'[r].idx - 1) :
                config[j].name \in SkippedNames(req'[r].skipped)
    /\ req'[r].pc = "done" =>
          /\ req'[r].out # {}
          /\ \A out \in req'[r].out : out.provider = {} /\ out.result = {}

\* C2: a status >= 500 or a thrown error records exactly one failure for the
\* attempted provider, with the provider's own maxFailures and cooldownSeconds
\* (3 and 60 when not configured), and the request goes on with the next
\* provider instead of returning.
C2_FailureRecordedThenNext ==
    [][\A r \in Requests, o \in Outcomes :
          (ChatCompletionsSettles(r, o) /\ Failing(o)) =>
             LET p == config[req[r].idx]
                 n == p.name
                 count == health[n].consecutiveFailures + 1
             IN  /\ health'[n].consecutiveFailures = count
                 /\ streak'[n] = streak[n] + 1
                 /\ IF count >= OwnMaxFailures(p)
                    THEN /\ ~health'[n].healthy
                         /\ health'[n].cooldownUntil =
                               now + OwnCooldownSeconds(p) * 1000
                    ELSE /\ health'[n].healthy = health[n].healthy
                         /\ health'[n].cooldownUntil = health[n].cooldownUntil
                 /\ GoesOn(r)]_vars

\* C2 witness: a request went past a failed provider with an explicit model
\* list (which cannot miss softly) and now waits for the next one.
C2_Witness ==
    \E r \in Requests :
        /\ req[r].pc = "await"
        /\ Len(req[r].attempted) >= 2
        /\ LET p == ProviderNamed(req[r].attempted[1])
           IN  /\ "*" \notin Range(p.models)
               /\ health[p.name].consecutiveFailures >= 1
               /\ streak[p.name] >= 1

\* C3: a status in [200, 500) other than the 404 of a wildcard provider
\* records a success (no failures, healthy) and returns at once with that
\* provider and result: no later provider is health-checked or called.
C3_TerminalStatusReturns ==
    [][\A r \in Requests, o \in Outcomes :
          (ChatCompletionsSettles(r, o) /\ Terminal(config[req[r].idx], o)) =>
             LET p == config[req[r].idx]
             IN  /\ health'[p.name].consecutiveFailures = 0
                 /\ health'[p.name].healthy
                 /\ \A m \in DOMAIN health \ {p.name} : health'[m] = health[m]
                 /\ req'[r].pc = "done"
                 /\ req'[r].out =
                       {[provider |-> {p}, result |-> {[status |-> o.status]},
                         attempted |-> req[r].attempted,
                         skipped |-> req[r].skipped, error |-> {}]}
                 /\ req'[r].calls = req[r].calls
                 /\ req'[r].hlog = req[r].hlog]_vars

\* C3 witness: a client error was returned although a later provider of the
\* chain serves the model and is healthy.
C3_Witness ==
    \E r \in Requests :
        /\ req[r].pc = "done"
        /\ req[r].resp.kind = "status"
        /\ req[r].resp.status >= 400
        /\ \E j \in (req[r].idx + 1)..Len(config) :
              /\ Matches(config[j], req[r].model)
              /\ health[config[j].name].healthy

C7_SuccessClearsHealth ==
    [][\A r \in Requests, o \in Outcomes :
          (ChatCompletionsSettles(r, o) /\ Terminal(config[req[r].idx], o)) =>
             health'[config[req[r].idx].name] =
                Cleared(config[req[r].idx].name)]_vars

\* C7 witness: a success was recorded for a provider that was unhealthy and
\* in its cooldown.
C7_Witness ==
    \E r \in Requests :
        /\ req[r].pc = "done"
        /\ \E was \in req[r].pre :
              /\ ~was.healthy
              /\ was.consecutiveFailures > 0
              /\ now < was.cooldownUntil
              /\ health[was.name] = Cleared(was.name)

\* The isHealthy calls request r made in the step, with their answers.
NewChecks(r) ==
    {req'[r].hlog[k] : k \in
        {j \in (Len(req[r].hlog) + 1)..Len(req'[r].hlog) :
            req'[r].hlog[j][1] = "isHealthy"}}

\* C8: isHealthy on an unhealthy provider at or past cooldownUntil returns
\* true and in the same call makes it healthy with no failures and no
\* cooldown, so that it is attempted; before cooldownUntil it returns false
\* and changes nothing.
C8_RecoveryAtDeadline ==
    [][\A r \in Requests : \A e \in NewChecks(r) :
          LET n == e[2]
          IN  /\ (~health[n].healthy /\ now >= health[n].cooldownUntil) =>
                    /\ e[3]
                    /\ health'[n] = Cleared(n)
                    /\ n \in Range(req'[r].attempted)
              /\ (~health[n].healthy /\ now < health[n].cooldownUntil) =>
                    /\ ~e[3]
                    /\ health'[n] = health[n]]_vars

\* C8 witness: a request waits for a provider that its isHealthy call
\* recovered.
C8_Witness ==
    \E r \in Requests :
        /\ req[r].pc = "await"
        /\ <<"recover", config[req[r].idx].name, TRUE>> \in Range(req[r].hlog)
        /\ health[config[req[r].idx].name] = Cleared(config[req[r].idx].name)

\* C9: a request that reaches an unhealthy provider before its cooldown
\* deadline skips it as unhealthy and does not call it; when no other
\* provider serves the model, the request ends with the exhausted result.
C9_UnhealthySkippedUntilDeadline ==
    [][\A r \in Requests : \A e \in NewChecks(r) :
          LET n == e[2]
          IN  (~health[n].healthy /\ now < health[n].cooldownUntil) =>
                 /\ <<n, "unhealthy">> \in Range(req'[r].skipped)
                 /\ n \notin Range(req'[r].calls)
                 /\ n \notin Range(req'[r].attempted)
                 /\ (\A q \in Range(config) :
                        q.name # n => ~Matches(q, req'[r].model)) =>
                       /\ req'[r].pc = "done"
                       /\ \E out \in req'[r].out :
                             /\ out.provider = {}
                             /\ out.result = {}
                             /\ out.error # {}]_vars

\* C9 witness: the single-provider scenario; the provider is in its cooldown
\* and the request for its model ends exhausted, with no call.
C9_Witness ==
    \E r \in Requests :
        /\ config = ChainSingle
        /\ req[r].pc = "done"
        /\ req[r].model = "x"
        /\ req[r].skipped = <<<<"A", "unhealthy">>>>
        /\ req[r].calls = <<>>
        /\ \E out \in req[r].out : out.provider = {}
        /\ ~health["A"].healthy
        /\ now < health["A"].cooldownUntil

C11_HealthyFlagTransitions ==
    /\ \A n \in DOMAIN health : health[n] = Cleared(n)
    /\ [][\A n \in DOMAIN health :
            /\ (health[n].healthy /\ ~health'[n].healthy) =>
                  \E r \in Requests, o \in Outcomes :
                     /\ ChatCompletionsSettles(r, o)
                     /\ Failing(o)
                     /\ config[req[r].idx].name = n
                     /\ health[n].consecutiveFailures + 1
                           >= OwnMaxFailures(config[req[r].idx])
            /\ (~health[n].healthy /\ health'[n].healthy) =>
                  \/ \E r \in Requests, o \in Outcomes :
                        /\ ChatCompletionsSettles(r, o)
                        /\ Terminal(config[req[r].idx], o)
                        /\ config[req[r].idx].name = n
                  \/ /\ now >= health[n].cooldownUntil
                     /\ \E r \in Requests :
                           <<"isHealthy", n, TRUE>> \in NewChecks(r)]_vars

\* C11 witness: a provider with a threshold of two went unhealthy, was
\* recovered by an isHealthy call and is healthy again.
C11_Witness ==
    \E r \in Requests, n \in DOMAIN health :
        /\ OwnMaxFailures(ProviderNamed(n)) = 2
        /\ <<"recover", n, TRUE>> \in Range(req[r].hlog)
        /\ health[n].healthy
        /\ ticks > 0

\* C12 as stated: a provider with healthy = true has consecutiveFailures = 0.
\* Violated by a provider that failed fewer times than its threshold.
C12_HealthyHasNoFailures ==
    \A n \in DOMAIN health :
        health[n].healthy => health[n].consecutiveFailures = 0

\* C12: a provider with healthy = true has fewer consecutive failures than
\* its maxFailures (none right after a success or a recovery).
C12_HealthyBelowThreshold ==
    \A n \in DOMAIN health :
        health[n].healthy =>
            /\ health[n].consecutiveFailures >= 0
            /\ health[n].consecutiveFailures
                  < OwnMaxFailures(ProviderNamed(n))
            /\ health[n].consecutiveFailures = streak[n]

\* C12 witness: a healthy provider with a failure on its record.
C12_Witness ==
    \E n \in DOMAIN health :
        /\ health[n].healthy
        /\ health[n].consecutiveFailures > 0

\* The later of two instants.
Later(a, b) == IF a >= b THEN a ELSE b

IndexOf(n) == CHOOSE i \in 1..Len(config) : config[i].name = n

\* The names of sequence s are in configuration order, none of them twice.
InConfigOrder(s) ==
    /\ \A k \in 1..Len(s) : s[k] \in {config[i].name : i \in 1..Len(config)}
    /\ \A j, k \in 1..Len(s) : j < k => IndexOf(s[j]) < IndexOf(s[k])

\* C14: in one routeChatCompletions call attempted and skipped are each in
\* configuration order without repetition, the loop is never behind a
\* provider it has listed, and chatCompletions is called at most once per
\* provider, in the order of attempted.
C14_ConfigurationOrder ==
    \A r \in Requests :
        LET rq == req[r]
            skippedNames == [k \in 1..Len(rq.skipped) |-> rq.skipped[k][1]]
        IN  /\ InConfigOrder(rq.attempted)
            /\ InConfigOrder(skippedNames)
            /\ rq.calls = rq.attempted
            /\ \A n \in Range(rq.attempted) \cup Range(skippedNames) :
                  IndexOf(n) <= rq.idx
            /\ Range(rq.attempted) \cap Range(skippedNames) = {}

\* C14 witness: a request on the chain of three that skipped a provider and
\* then called two.
C14_Witness ==
    \E r \in Requests :
        /\ Len(config) = 3
        /\ Len(req[r].attempted) = 2
        /\ Len(req[r].skipped) = 1
        /\ Len(req[r].calls) = 2

\* C15: an error thrown by an upstream call is caught: a failure is recorded
\* for the provider and the request goes on with a later provider or returns
\* the exhausted RouteResult; every request that ends returns one RouteResult,
\* after at most one call per configured provider.
C15_UpstreamErrorsAbsorbed ==
    [][/\ \A r \in Requests, o \in Outcomes :
             (ChatCompletionsSettles(r, o) /\ o.kind = "throw") =>
                LET p == config[req[r].idx]
                IN  /\ health'[p.name].consecutiveFailures =
                          health[p.name].consecutiveFailures + 1
                    /\ streak'[p.name] = streak[p.name] + 1
                    /\ req'[r].pc \in {"await", "done"}
                    /\ req'[r].pc = "await" => req'[r].idx > req[r].idx
                    /\ req'[r].pc = "done" =>
                          req'[r].out =
                             {exhaustedResult(req[r].model, req'[r].attempted,
                                              req'[r].skipped)}
       /\ \A r \in Requests :
             /\ req'[r].pc = "done" => Cardinality(req'[r].out) = 1
             /\ req'[r].pc # "done" => req'[r].out = {}
             /\ Len(req'[r].calls) <= Len(config)
             /\ \A i \in 1..Len(config) :
                   Count(req'[r].calls, LAMBDA n : n = config[i].name) <= 1]_vars

\* C15 witness: the last provider of a chain of three threw, after two other
\* attempts, and the request returned the exhausted result.
C15_Witness ==
    \E r \in Requests :
        /\ req[r].pc = "done"
        /\ req[r].thrown
        /\ Len(req[r].attempted) = 3
        /\ \E out \in req[r].out : out.provider = {} /\ out.error # {}

\* The ids of an array of model entries.
IdsOf(value) == {value[k].id : k \in 1..Len(value)}

\* The configuration indices of the providers whose fetch, in the
\* listAllModels call, reported a model with this id.
Reporting(id) ==
    {listing.healthyProviders[i] :
        i \in {j \in 1..Len(listing.results) :
                  id \in IdsOf(listing.results[j].value)}}

\* The least element of a non-empty set of numbers.
Least(S) == CHOOSE x \in S : \A y \in S : x <= y

\* C16: the array listAllModels returns holds no id twice, and the entry kept
\* for an id comes from the first provider, in configuration order, among
\* those that reported the id, whatever the order the fetches settled in.
C16_FirstConfiguredWins ==
    listing.pc = "done" =>
        /\ \A j, k \in 1..Len(listing.out) :
              j # k => listing.out[j].id # listing.out[k].id
        /\ \A k \in 1..Len(listing.out) :
              LET e == listing.out[k]
              IN  /\ Reporting(e.id) # {}
                  /\ e.owned_by = config[Least(Reporting(e.id))].name

\* C16 witness: two providers reported the same id, a fetch settled before
\* the fetch of an earlier provider, and the returned array has the id.
C16_Witness ==
    /\ listing.pc = "done"
    /\ listing.overtaken
    /\ \E e \in Range(listing.out) : Cardinality(Reporting(e.id)) >= 2
    /\ \E i \in 1..Len(listing.results) :
          Len(listing.results[i].value) = 3

\* The positions of the configuration whose provider isHealthy answers true
\* for in the current state, in configuration order.
HealthyNow ==
    SelectSeq([i \in 1..Len(config) |-> i],
              LAMBDA i : isHealthy(health, config[i].name, now).ret)

\* C17: listAllModels starts a fetch for exactly the providers isHealthy
\* answers true for when it is called; it returns only when every one of
\* these fetches has settled; the ids returned are those of all the fetches
\* that succeeded; a fetch that failed contributes no entry, changes no other
\* fetch's result and does not end the call while another fetch is pending.
C17_AllHealthyFetchesSettle ==
    [][/\ ListAllModels =>
             /\ listing'.healthyProviders = HealthyNow
             /\ Len(listing'.results) = Len(HealthyNow)
             /\ \A i \in 1..Len(listing'.results) :
                   listing'.results[i] = Pending
             /\ listing'.pc = IF HealthyNow = <<>> THEN "done" ELSE "await"
       /\ listing'.pc = "done" =>
             /\ \A i \in 1..Len(listing'.results) :
                   listing'.results[i].status = "fulfilled"
             /\ IdsOf(listing'.out) =
                   UNION {IdsOf(listing'.results[i].value) :
                             i \in 1..Len(listing'.results)}
             /\ \A e \in Range(listing'.out) :
                   \E i \in 1..Len(listing'.results) :
                      e \in Range(listing'.results[i].value)
       /\ \A i \in 1..3, a \in ListAnswers :
             (ListModelsSettles(i, a) /\ a.kind # "ok") =>
                /\ listing'.results[i] = Fulfilled(<<>>)
                /\ \A j \in 1..Len(listing.results) :
                      j # i => listing'.results[j] = listing.results[j]
                /\ listing'.pc = "await" <=>
                      \E j \in 1..Len(listing.results) :
                         j # i /\ listing.results[j].status = "pending"]_vars

\* C17 witness: on a chain of three, one provider was unhealthy when the call
\* was made and got no fetch; of the two fetches the one to settle last was
\* that of the earlier provider and failed, and the other one's models were
\* returned.
C17_Witness ==
    /\ listing.pc = "done"
    /\ Len(config) = 3
    /\ Len(listing.healthyProviders) = 2
    /\ listing.last \in {"notok", "throw"}
    /\ listing.overtaken
    /\ listing.results[1].value = <<>>
    /\ listing.out # <<>>

\* C18: the idle timer is set to 30 s when streaming begins and set again to
\* 30 s on every chunk delivered; while the stream is open the timer is
\* scheduled for 30 s after the stream began or delivered its last chunk and
\* that instant has not passed; the timer fires only when 30 s went by with
\* no chunk, and firing aborts the call's controller and ends the stream for
\* its consumer with an error.
C18_IdleTimerAbortsStream ==
    [][\A c \in Calls :
          /\ ResponseArrives(c, TRUE) =>
                /\ call'[c].pc = "stream"
                /\ call'[c].timer = {now + STREAM_IDLE_TIMEOUT_MS}
          /\ Chunk(c) =>
                /\ call'[c].chunks = call[c].chunks + 1
                /\ call'[c].timer = {now + STREAM_IDLE_TIMEOUT_MS}
          /\ call'[c].pc = "stream" =>
                /\ call'[c].timer = {call'[c].last + STREAM_IDLE_TIMEOUT_MS}
                /\ now' <= call'[c].last + STREAM_IDLE_TIMEOUT_MS
                /\ ~call'[c].aborted
          /\ IdleTimerFires(c) =>
                /\ now = call[c].last + STREAM_IDLE_TIMEOUT_MS
                /\ call'[c].chunks = call[c].chunks
                /\ call'[c].aborted
                /\ call'[c].pc = "done"
                /\ call'[c].outcome = "errored"]_vars

\* C18 witness: a stream delivered a chunk some time after it began, then
\* stayed idle for 30 s and was aborted by the idle timer.
C18_Witness ==
    \E c \in Calls :
        /\ call[c].pc = "done"
        /\ call[c].outcome = "errored"
        /\ call[c].signal = "none"
        /\ call[c].aborted
        /\ call[c].chunks = 1
        /\ call[c].last > StartTime
        /\ now = call[c].last + STREAM_IDLE_TIMEOUT_MS

\* C19: when the signal the caller supplied is aborted while fetch or the
\* body read is awaited, the call's controller is aborted and the call ends
\* by throwing, with no result; when the call has already returned a stream,
\* the stream is errored.
C19_CallerAbortPropagates ==
    [][\A c \in Calls :
          CallerAborts(c) =>
             /\ call[c].signal = "live"
             /\ call'[c].signal = "aborted"
             /\ call'[c].aborted
             /\ call'[c].pc = "done"
             /\ call[c].pc \in {"fetch", "text"} =>
                   call'[c].outcome = "timed out"
             /\ call[c].pc = "stream" => call'[c].outcome = "errored"]_vars

\* C19 witness: a call ended by throwing after its caller aborted the signal
\* during the body read, long before the request timer was due.
C19_Witness ==
    \E c \in Calls :
        /\ call[c].pc = "done"
        /\ call[c].signal = "aborted"
        /\ call[c].aborted
        /\ call[c].outcome = "timed out"
        /\ ticks > 0
        /\ now < StartTime + TIMEOUT_MS

\* The entry of the /health body reports what the tracker stores for its
\* provider.
ReportsStored(e, h) ==
    /\ e.healthy = h[e.name].healthy
    /\ e.consecutiveFailures = h[e.name].consecutiveFailures

\* C20: get and getAll return the stored records and leave the tracker as it
\* is, also for an unhealthy provider whose cooldown has expired; every step
\* of handleHealth leaves the tracker unchanged, and each entry it builds
\* reports the healthy flag and the failure count stored at that moment.
C20_HealthReadsChangeNothing ==
    [][/\ \A n \in DOMAIN health :
             /\ get(health, n).state = health
             /\ get(health, n).ret = {health[n]}
       /\ getAll(health, config).state = health
       /\ \A i \in 1..Len(config) :
             getAll(health, config).ret[i] = health[config[i].name]
       /\ HandleHealth =>
             /\ health' = health
             /\ \A i \in DOMAIN report'.entries :
                   \A e \in report'.entries[i] : ReportsStored(e, health)
       /\ \A i \in 1..3, answer \in ProbeAnswers :
             ProbeSettles(i, answer) =>
                /\ health' = health
                /\ \A e \in report'.entries[i] :
                      /\ e.name = config[i].name
                      /\ ReportsStored(e, health)
       /\ report'.pc = "done" =>
             report'.status =
                IF \A i \in DOMAIN report'.entries :
                      \A e \in report'.entries[i] : e.healthy
                THEN 200 ELSE 503]_vars

\* C20 witness: /health answered 503 with an entry healthy = false for a
\* provider whose cooldown has expired, and the provider is still unhealthy
\* in the tracker.
C20_Witness ==
    /\ report.pc = "done"
    /\ report.status = 503
    /\ \E i \in DOMAIN report.entries : \E e \in report.entries[i] :
          /\ ~e.healthy
          /\ e.consecutiveFailures >= 1
          /\ ~health[e.name].healthy
          /\ health[e.name].cooldownUntil > 0
          /\ now >= health[e.name].cooldownUntil


\* A call of the tracker made with a name that is not a configured provider.
OnUnknown(n) ==
    \/ IsHealthy(n)
    \/ RecordSuccess(n)
    \/ \E mf \in ThresholdArgs, cd \in CooldownArgs : RecordFailure(n, mf, cd)

\* C21: for a name that is not a configured provider, isHealthy returns
\* false and recordSuccess and recordFailure do nothing: the tracker's state
\* after the call is the state before it, and it holds no record for the name.
C21_UnknownProviderIgnored ==
    [][\A n \in TrackerNames \ {p.name : p \in Range(config)} :
          OnUnknown(n) =>
             /\ health' = health
             /\ n \notin DOMAIN health'
             /\ op'.name = "isHealthy" => op'.ret = {FALSE}
             /\ isHealthy(health, n, now).ret = FALSE
             /\ recordSuccess(health, n) = health
             /\ \A mf \in ThresholdArgs, cd \in CooldownArgs :
                   recordFailure(health, n, mf, cd, now) = health]_vars

\* C21 witness: recordFailure was called with the unknown name while a
\* configured provider was one failure short of its threshold, and the
\* tracker holds the configured providers only.
C21_Witness ==
    /\ op.name = "recordFailure"
    /\ op.arg = UnknownName
    /\ UnknownName \notin DOMAIN health
    /\ \E p \in Range(config) : health[p.name].consecutiveFailures > 0


\* What the upstream did in the last call of listModels or checkReachable.
Upstream == CHOOSE u \in op.input : TRUE

Younger(k) ==
    \E e \in cache[k] : now - e.cachedAt < REACHABILITY_TTL_MS

\* C23: getCachedReachability returns the cached value without probing
\* exactly when the cache holds an entry for the provider's base URL that is
\* younger than the TTL when it is read; otherwise it probes, and when the
\* probe settles the entry is replaced as a whole by the probe's result and
\* the time of that write.  Nothing else ever changes or removes an entry.
C23_CacheServedWhileYoung ==
    [][/\ DOMAIN cache' = DOMAIN cache
       /\ (report.pc = "idle" /\ report'.pc # "idle") =>
             /\ cache' = cache
             /\ \A i \in 1..Len(config) :
                   LET k == config[i].baseUrl
                   IN  /\ report'.entries[i] # {} <=> Younger(k)
                       /\ \A x \in report'.entries[i], e \in cache[k] :
                             x.reachable = e.reachable
       /\ \A k \in DOMAIN cache :
             cache'[k] # cache[k] =>
                /\ report.pc = "await"
                /\ \E i \in 1..Len(config) :
                      /\ config[i].baseUrl = k
                      /\ report.entries[i] = {}
                      /\ \E x \in report'.entries[i] :
                            cache'[k] = {[reachable |-> x.reachable,
                                          cachedAt |-> now]}
       /\ (report.pc = "await" /\ report' # report) =>
             \E i \in 1..Len(config) :
                /\ report.entries[i] = {}
                /\ \E x \in report'.entries[i] :
                      cache'[config[i].baseUrl] =
                         {[reachable |-> x.reachable, cachedAt |-> now]}]_vars

\* C23 witness: on the chain that lists one upstream twice, the entry of the
\* shared base URL was written again after an earlier entry had reached the
\* TTL, and the response is built.
C23_Witness ==
    /\ config = ChainMirror
    /\ report.pc = "done"
    /\ \E e \in cache["http://m/v1"] :
          /\ e.cachedAt >= StartTime + REACHABILITY_TTL_MS
          /\ ~e.reachable


\* The tracker, asked now, would call provider n healthy: its flag is set or
\* its cooldown deadline is reached.
WellNow(n) ==
    \/ health[n].healthy
    \/ health[n].cooldownUntil > 0 /\ now >= health[n].cooldownUntil

\* The positions of the chain the routing loop of request r went through in
\* the step.
LoopVisited(r) ==
    {j \in 1..Len(config) : req[r].idx < j /\ j <= req'[r].idx}

\* C24: routing never reads the reachability cache.  Whatever the cache
\* holds and whatever the probes answer, a step of routeChatCompletions
\* skips, attempts and recovers each provider by its model list and its
\* health record alone, listAllModels keeps the providers by their health
\* records alone, and a step that writes the cache or builds a /health
\* response changes neither the tracker nor a request nor a listing.
C24_ReachabilityNotUsedForRouting ==
    [][/\ (cache' # cache \/ report' # report) =>
             UNCHANGED <<health, streak, req, listing>>
       /\ \A r \in Requests :
             (req'[r] # req[r] /\ req'[r].pc # "idle") =>
                \A j \in LoopVisited(r) :
                   LET p == config[j]
                       n == p.name
                   IN  /\ ~Matches(p, req'[r].model) =>
                             /\ <<n, "no-model">> \in Range(req'[r].skipped)
                             /\ n \notin Range(req'[r].attempted)
                             /\ health'[n] = health[n]
                       /\ (Matches(p, req'[r].model) /\ ~WellNow(n)) =>
                             /\ <<n, "unhealthy">> \in Range(req'[r].skipped)
                             /\ n \notin Range(req'[r].attempted)
                             /\ health'[n] = health[n]
                       /\ (Matches(p, req'[r].model) /\ WellNow(n)) =>
                             /\ n \notin SkippedNames(req'[r].skipped)
                             /\ n \in Range(req'[r].attempted)
                             /\ req'[r].pc = "await"
                             /\ req'[r].idx = j
                             /\ health'[n] = IF health[n].healthy
                                             THEN health[n] ELSE Cleared(n)
       /\ (listing.pc = "idle" /\ listing'.pc # "idle") =>
             /\ Range(listing'.healthyProviders) =
                   {j \in 1..Len(config) : WellNow(config[j].name)}
             /\ \A j \in 1..Len(config) :
                   health'[config[j].name] =
                      IF WellNow(config[j].name) /\ ~health[config[j].name].healthy
                      THEN Cleared(config[j].name)
                      ELSE health[config[j].name]]_vars

\* C24 witness: a request waits for the second provider while the first is
\* in its cooldown, and the cache says that their common upstream is
\* unreachable.
C24_Witness ==
    /\ req[1].pc = "await"
    /\ req[1].idx = 2
    /\ req[1].skipped = <<<<config[1].name, "unhealthy">>>>
    /\ \E e \in cache[config[2].baseUrl] : ~e.reachable


\* The body is larger than the limit, is not JSON, or is a JSON value with
\* no model member that is a non-empty string.
BadBody(request) ==
    \/ request.size.bytes > MAX_BODY_BYTES
    \/ request.parsed.json # "object"
    \/ request.parsed.model.type # "string"
    \/ request.parsed.model.value = ""

\* The handler answered the last request itself, with a 4xx status.
ClientError(o) ==
    /\ o.name = "handleChatCompletions"
    /\ \A a \in o.ret : ~a.thrown /\ ~a.routed /\ a.status \in 400..499
    /\ o.ret # {}

\* C25: a request whose body is larger than the limit, is not valid JSON, or
\* is a JSON value (an object or not) without a non-empty string model is
\* answered with a 4xx status, and the router is not called for it: no
\* request is routed and the tracker is unchanged.
C25_BadBodyAnsweredWithClientError ==
    [][\A request \in HttpRequests :
          (HandleChatCompletions(1, request) /\ BadBody(request)) =>
             /\ ClientError(op')
             /\ request \in op'.input
             /\ UNCHANGED <<health, streak, req>>]_vars

\* C25 witness: the body null met the handler and no response was built.
C25_Witness ==
    /\ op.name = "handleChatCompletions"
    /\ \E request \in op.input :
          /\ request.method = "POST"
          /\ request.readable
          /\ request.parsed.json = "null"
    /\ \E a \in op.ret : a.thrown


OnlyWildcard(p) == p.models = <<"*">>

\* C27: a provider whose model list is ["*"] serves every model string, the
\* string "*" included, and no request ever skips it as no-model: whenever a
\* request has gone past it, it was attempted or skipped as unhealthy.
C27_WildcardServesEveryModel ==
    /\ \A p \in Range(config), m \in ModelStrings :
          OnlyWildcard(p) => servesModel(p, m)
    /\ \A r \in Requests : \A p \in Visited(req[r]) :
          OnlyWildcard(p) =>
             /\ <<p.name, "no-model">> \notin Range(req[r].skipped)
             /\ \/ p.name \in Range(req[r].attempted)
                \/ <<p.name, "unhealthy">> \in Range(req[r].skipped)

\* C27 witness: a request for the model "*" waits for the answer of a
\* provider whose list is ["*"].
C27_Witness ==
    \E r \in Requests :
        /\ req[r].pc = "await"
        /\ req[r].model = "*"
        /\ OnlyWildcard(config[req[r].idx])


\* The request returns the answer o of the provider it was waiting for, in
\* this step, with no further health check and no further call.
ReturnsAnswer(r, o) ==
    /\ req'[r].pc = "done"
    /\ \A out \in req'[r].out :
          /\ out.provider = {config[req[r].idx]}
          /\ out.result = {[status |-> o.status]}
    /\ req'[r].out # {}
    /\ req'[r].calls = req[r].calls
    /\ req'[r].hlog = req[r].hlog

Waiting(q, n) ==
    {r \in Requests : q[r].pc = "await" /\ config[q[r].idx].name = n}

\* C30: with several routed requests in flight on one tracker, every failure
\* is counted: a failing answer adds one to the count the tracker holds at
\* that moment, whatever the other requests did since this request checked
\* the provider, so that the count is the number of failures recorded since
\* it was last reset.  In every state a provider whose count is at or above
\* its maxFailures is unhealthy and has a cooldown deadline; the count may
\* exceed maxFailures.
C30_ConcurrentFailuresAllCounted ==
    [][/\ \A r \in Requests, o \in Outcomes :
             (ChatCompletionsSettles(r, o) /\ Failing(o)) =>
                LET n == config[req[r].idx].name
                IN  /\ health'[n].consecutiveFailures =
                          health[n].consecutiveFailures + 1
                    /\ \A r2 \in Waiting(req, n) \ {r} :
                          /\ req'[r2] = req[r2]
                          /\ r2 \in Waiting(req', n)
       /\ \A n \in DOMAIN health :
             LET p == ProviderNamed(n)
             IN  /\ health'[n].consecutiveFailures = streak'[n]
                 /\ health'[n].consecutiveFailures >= OwnMaxFailures(p) =>
                       /\ ~health'[n].healthy
                       /\ health'[n].cooldownUntil > 0]_vars

\* C30 witness: three requests were sent to the single provider while it was
\* healthy and all failed: the count is three, past the threshold of one, and
\* the provider is unhealthy with a deadline.
C30_Witness ==
    /\ config = ChainSingle
    /\ ticks = 0
    /\ health["A"].consecutiveFailures = 3
    /\ streak["A"] = 3
    /\ ~health["A"].healthy
    /\ health["A"].cooldownUntil > now


C32_RequestTimersClearedOnReturn ==
    op.name \in {"listModels", "checkReachable"} => op.timeout = NoTimer

\* C32 witness: checkReachable returned false because the fetch rejected,
\* and its request timer is still scheduled.
C32_Witness ==
    /\ op.name = "checkReachable"
    /\ Upstream.fetch = "rejects"
    /\ op.ret = {FALSE}
    /\ op.timeout = {now + PROBE_TIMEOUT_MS}


\* The provider whose chatCompletions call request r awaits.
Attempted(r) == config[req[r].idx].name

\* C33: when the awaited call ended only because the caller's signal was
\* aborted, the Router's next step leaves the health record of the attempted
\* provider as it was.
C33_CallerAbortLeavesHealthAlone ==
    [][\A r \in Requests, c \in Calls :
          (/\ req[r].pc = "await"
           /\ call[c].pc = "done"
           /\ call[c].by = "signal") =>
             health'[Attempted(r)] = health[Attempted(r)]]_vars

\* C33 witness: the only attempt of a request ended because the caller
\* aborted its signal, and the provider, whose threshold is one failure, is
\* unhealthy.
C33_Witness ==
    /\ config = ChainSingle
    /\ req[1].pc = "done"
    /\ req[1].calls = <<"A">>
    /\ call[1].by = "signal"
    /\ call[1].outcome = "timed out"
    /\ health["A"].consecutiveFailures = 1
    /\ ~health["A"].healthy

\* C34: a chatCompletions call whose caller's signal is aborted is not in
\* flight and has not returned a result: it was aborted, and the Router
\* gets no ProviderResult from it.
C34_NoAttemptAfterCancellation ==
    \A c \in Calls :
        call[c].signal = "aborted" =>
            /\ call[c].pc \in {"idle", "done"}
            /\ call[c].outcome # "returned"

\* C34 witness: the caller's signal is aborted and the first attempt is
\* over; the Router went on to the second provider, whose call ran to its
\* end un-aborted, and returned that provider's answer.
C34_Witness ==
    /\ req[1].pc = "done"
    /\ Len(req[1].calls) = 2
    /\ call[1].signal = "aborted"
    /\ call[1].by = ""
    /\ call[1].outcome = "returned"
    /\ \E out \in req[1].out : out.provider # {}


\* C35: a chatCompletions call that waits for the rest of a response body
\* has its request timer scheduled, so a body that never arrives ends the
\* call with a timeout and the call does not stay pending for ever.
C35_BodyReadEndsByTimeout ==
    \A c \in Calls : call[c].pc = "text" => call[c].timeout # NoTimer

\* C35 witness: a call made without a signal still waits for its body when
\* more than TIMEOUT_MS have passed since the server started, and no timer
\* is scheduled that could end it.
C35_Witness ==
    \E c \in Calls :
        /\ call[c].pc = "text"
        /\ call[c].signal = "none"
        /\ now > StartTime + TIMEOUT_MS
        /\ Deadlines = {}


\* The cooldown passed to the recordFailure call that was made last.
LastCooldown == CHOOSE a \in op.input : TRUE

C37_RouteResultWellFormed ==
    \A r \in Requests :
        \A out \in req[r].out :
            /\ out.provider = {} <=> out.result = {}
            /\ out.result = {} <=> out.error # {}
            /\ \A p \in out.provider :
                  /\ out.attempted # <<>>
                  /\ p.name = out.attempted[Len(out.attempted)]
                  /\ \A res \in out.result : res.status \in 200..499
            /\ Range(out.attempted) \cap SkippedNames(out.skipped) = {}

\* C37 witness: a result returned by the second provider tried, with a
\* provider skipped on the way.
C37_Witness ==
    \E r \in Requests :
        /\ req[r].pc = "done"
        /\ \E out \in req[r].out :
              /\ out.provider # {}
              /\ Len(out.attempted) = 2
              /\ out.skipped # <<>>


\* The flush() calls that are in progress.
Flushing == {f \in FlushCalls : logger.calls[f].pc # "idle"}

\* The entries held by the flush() calls in progress.
InFlight == UNION {Range(logger.calls[f].lines) : f \in Flushing}

\* C38: when shutdown() has resolved, the flush timer is stopped, every
\* entry logged before shutdown() was called has been written to the file,
\* and none of them is in the buffer.
C38_ShutdownDrainsLog ==
    logger.shutdown = "resolved" =>
        /\ ~logger.flushTimer
        /\ \A e \in 1..logger.upto :
              e \in Range(logger.appended) /\ e \notin Range(logger.buffer)

\* C38 witness: shutdown() has resolved while the periodic flush that was in
\* progress when it was called still awaits appendFile, and an entry logged
\* before the call is left in the buffer with no timer to flush it.
C38_Witness ==
    /\ logger.shutdown = "resolved"
    /\ ~logger.flushTimer
    /\ \E f \in FlushCalls : logger.calls[f].pc = "append"
    /\ \E e \in Range(logger.buffer) : e <= logger.upto
    /\ logger.failed = {}

\* C39: at most one flush() is in progress, and the flushing flag is set
\* exactly while one is; what has been appended to the file is in the order
\* of the log() calls with no entry twice; every entry logged is in the
\* buffer, in the flush in progress, in the file or was in an append that
\* failed, and the entries in the buffer are later ones than those taken by
\* a flush.
C39_OneFlushEntriesOnceInOrder ==
    /\ Cardinality(Flushing) <= 1
    /\ logger.flushing <=> Flushing # {}
    /\ \A i, j \in 1..Len(logger.appended) :
          i < j => logger.appended[i] < logger.appended[j]
    /\ \A i, j \in 1..Len(logger.buffer) :
          i < j => logger.buffer[i] < logger.buffer[j]
    /\ \A e \in 1..logger.logged :
          Cardinality({place \in {"buffer", "flush", "file", "failed"} :
              \/ place = "buffer" /\ e \in Range(logger.buffer)
              \/ /\ place = "flush"
                 /\ e \in InFlight
                 /\ e \notin Range(logger.appended)
              \/ place = "file" /\ e \in Range(logger.appended)
              \/ place = "failed" /\ e \in logger.failed}) = 1
    /\ \A e \in Range(logger.buffer) :
          \A d \in InFlight \cup Range(logger.appended) \cup logger.failed :
              d < e

\* C39 witness: an append failed, the flag was reset, and a later flush wrote
\* an entry that was logged while the failing flush was in progress.
C39_Witness ==
    /\ logger.failed = {1}
    /\ logger.appended = <<2>>
    /\ ~logger.flushing


\* The providers configured with base URL k.
Sharing(k) == {i \in 1..Len(config) : config[i].baseUrl = k}

\* The callbacks of the handleHealth call rp that await a probe of base
\* URL k.
Probing(rp, k) ==
    IF rp.pc # "await" THEN {}
    ELSE {i \in Sharing(k) : rp.entries[i] = {}}

====
